---- MODULE Spec2Model ----
(***************************************************************************)
(* manifold-k8s: discovery, ordering and cleaning of Kubernetes resources  *)
(* and the export of their manifests to disk.                              *)
(*                                                                         *)
(* Go strings whose bytes the code inspects or orders (resource names,     *)
(* group-versions, path elements) are sequences of one-character strings;  *)
(* strings that are only compared for equality (verbs, map keys, messages) *)
(* are TLA+ strings.                                                       *)
(***************************************************************************)
EXTENDS Integers, Sequences, FiniteSets, TLC

VARIABLES
  \* DiscoverResources and sortResourcesByPriority
  apiResourceLists,   \* the resource lists ServerGroupsAndResources returns
  discovered,         \* the return of DiscoverResources
  sortedDirect,       \* a slice handed to sortResourcesByPriority, before and after
  \* CleanManifest
  manifest,           \* the object handed to CleanManifest
  cleanedOnce,        \* CleanManifest(manifest)
  cleanedTwice,       \* CleanManifest(CleanManifest(manifest))
  \* CleanManifest on documents held by reference
  heap,               \* the maps and slices in memory, by address
  heapAtCall,         \* the heap when CleanManifest was called
  returned,           \* the address of the document CleanManifest returned
  changes,            \* how many changes the caller made to the returned document
  \* GenerateFilePath
  pathArgs,           \* the four arguments
  pathResults,        \* what each call so far returned
  \* Exporter
  exp,                \* the Exporter: BaseDir and ExportedCount
  fs,                 \* the file system
  exportCalls,        \* how often ExportResource was called
  lastExport,         \* the last direct ExportResource call: arguments, error, state before
  \* runExport
  flags,              \* the command's flags
  objects,            \* the objects in the cluster
  pc,                 \* where runExport is
  selectedResources,
  nsIdx, resIdx,      \* the place in the two loops
  items, itemIdx,     \* the items of the current list and the place in them
  stdout, stderr,     \* what was printed
  listCalls,          \* the list calls made, with what each returned
  faults,             \* how many calls of the environment failed
  retErr,             \* what the command returned ("none" while it runs)
  stages,             \* the stages of the command entered so far, in order
  firstRun,           \* what an earlier run of the same command left
  \* runHelmValuesExport
  helmFlags,          \* the command's flags
  helmInstalled,      \* whether the helm binary can be run
  helmReleases,       \* the Helm releases in the cluster
  releasesToExport,   \* the releases selected in the current namespace
  helmCalls,          \* the helm invocations made, with what each returned
  exportedCount,      \* the releases whose values were written
  \* helm.ListReleasesWithContext
  helmOutput,         \* what helm list printed
  lineIdx,            \* the line the parser is at
  parsedReleases,     \* the releases appended so far
  parsePc,            \* where the parser is: "lines", "returned" or "panic"
  \* the multi-select prompts of the selector package
  promptCall,         \* the prompt called, its arguments and the asker's answer
  promptResult,       \* what the prompt returned
  \* ExportResource called by several goroutines
  gpc,                \* where each goroutine is in ExportResource
  gtmp,               \* the counter value each goroutine has loaded
  gret,               \* what each call returned
  mu,                 \* the goroutine holding the Exporter's mutex
  \* runInteractive
  interFlags,         \* interactiveOutputDir and interactiveDryRun
  clusters,           \* the objects of each context's cluster
  selectedContexts,   \* the contexts the user selected
  ctxIdx,             \* the place in the context loop
  selectedNamespaces, \* the namespaces selected for the current context
  reports             \* the summary each context's Exporter printed

discVars == <<apiResourceLists, discovered, sortedDirect>>
cleanVars == <<manifest, cleanedOnce, cleanedTwice>>
heapVars == <<heap, heapAtCall, returned, changes>>
pathVars == <<pathArgs, pathResults>>
exporterVars == <<exp, fs, exportCalls, lastExport>>
runVars == <<flags, objects, pc, selectedResources, nsIdx, resIdx, items, itemIdx, stdout,
             stderr, listCalls, faults, retErr, stages, firstRun>>
helmVars == <<helmFlags, helmInstalled, helmReleases, releasesToExport, helmCalls, exportedCount>>
parseVars == <<helmOutput, lineIdx, parsedReleases, parsePc>>
promptVars == <<promptCall, promptResult>>
goVars == <<gpc, gtmp, gret, mu>>
interVars == <<interFlags, clusters, selectedContexts, ctxIdx, selectedNamespaces, reports>>
\* The variables of helm list parsing, the prompts, the goroutines and runInteractive.
restVars == <<parseVars, promptVars, goVars, interVars>>
vars == <<discVars, cleanVars, heapVars, pathVars, exporterVars, runVars, helmVars, restVars>>

NotCalled == [called |-> FALSE]

----------------------------------------------------------------------------
(* Strings *)

\* The bytes that occur in the model's strings, in ascending byte order.
Alphabet ==
  <<"-", ".", "/", "0", "1", "2", "3", "4", "5", "6", "7", "8", "9",
    "a", "b", "c", "d", "e", "f", "g", "h", "i", "j", "k", "l", "m",
    "n", "o", "p", "q", "r", "s", "t", "u", "v", "w", "x", "y", "z">>

ByteRank(c) == CHOOSE i \in DOMAIN Alphabet : Alphabet[i] = c

\* Go's s < t on strings: bytewise lexicographic order.
RECURSIVE StrLess(_, _)
StrLess(s, t) ==
  IF t = <<>> THEN FALSE
  ELSE IF s = <<>> THEN TRUE
  ELSE IF Head(s) = Head(t) THEN StrLess(Tail(s), Tail(t))
  ELSE ByteRank(Head(s)) < ByteRank(Head(t))

\* strings.Contains(s, c) and strings.Count(s, c) for a one-byte c.
ContainsByte(s, c) == \E i \in DOMAIN s : s[i] = c
CountByte(s, c) == Cardinality({i \in DOMAIN s : s[i] = c})
\* strings.Index(s, c) for a one-byte c that occurs in s (1-based here).
IndexByte(s, c) == CHOOSE i \in DOMAIN s : s[i] = c /\ \A j \in 1..(i - 1) : s[j] # c

SLASH == "/"

s_persistentvolumes == <<"p", "e", "r", "s", "i", "s", "t", "e", "n", "t", "v", "o", "l", "u", "m", "e", "s">>
s_persistentvolumeclaims == <<"p", "e", "r", "s", "i", "s", "t", "e", "n", "t", "v", "o", "l", "u", "m", "e", "c", "l", "a", "i", "m", "s">>
s_pods == <<"p", "o", "d", "s">>
s_deployments == <<"d", "e", "p", "l", "o", "y", "m", "e", "n", "t", "s">>
s_nodes == <<"n", "o", "d", "e", "s">>
s_alphas == <<"a", "l", "p", "h", "a", "s">>
s_pods_status == <<"p", "o", "d", "s", "/", "s", "t", "a", "t", "u", "s">>
s_events == <<"e", "v", "e", "n", "t", "s">>
s_bindings == <<"b", "i", "n", "d", "i", "n", "g", "s">>
s_v1 == <<"v", "1">>
s_apps_v1 == <<"a", "p", "p", "s", "/", "v", "1">>
s_example_com_v1 == <<"e", "x", "a", "m", "p", "l", "e", ".", "c", "o", "m", "/", "v", "1">>
s_a_b_c == <<"a", "/", "b", "/", "c">>

priorityResources ==
  << <<"d", "e", "p", "l", "o", "y", "m", "e", "n", "t", "s">>,
     <<"s", "t", "a", "t", "e", "f", "u", "l", "s", "e", "t", "s">>,
     <<"d", "a", "e", "m", "o", "n", "s", "e", "t", "s">>,
     <<"r", "e", "p", "l", "i", "c", "a", "s", "e", "t", "s">>,
     <<"i", "n", "g", "r", "e", "s", "s", "e", "s">>,
     <<"s", "e", "r", "v", "i", "c", "e", "s">>,
     <<"c", "o", "n", "f", "i", "g", "m", "a", "p", "s">>,
     <<"s", "e", "c", "r", "e", "t", "s">>,
     <<"s", "e", "r", "v", "i", "c", "e", "a", "c", "c", "o", "u", "n", "t", "s">>,
     <<"p", "o", "d", "s">>,
     <<"j", "o", "b", "s">>,
     <<"c", "r", "o", "n", "j", "o", "b", "s">>,
     <<"p", "e", "r", "s", "i", "s", "t", "e", "n", "t", "v", "o", "l", "u", "m", "e", "c", "l", "a", "i", "m", "s">> >>

standardGroups ==
  << <<"a", "p", "p", "s">>,
     <<"b", "a", "t", "c", "h">>,
     <<"a", "u", "t", "o", "s", "c", "a", "l", "i", "n", "g">>,
     <<"p", "o", "l", "i", "c", "y">>,
     <<"r", "b", "a", "c", ".", "a", "u", "t", "h", "o", "r", "i", "z", "a", "t", "i", "o", "n", ".", "k", "8", "s", ".", "i", "o">>,
     <<"n", "e", "t", "w", "o", "r", "k", "i", "n", "g", ".", "k", "8", "s", ".", "i", "o">>,
     <<"s", "t", "o", "r", "a", "g", "e", ".", "k", "8", "s", ".", "i", "o">>,
     <<"a", "p", "i", "e", "x", "t", "e", "n", "s", "i", "o", "n", "s", ".", "k", "8", "s", ".", "i", "o">>,
     <<"a", "d", "m", "i", "s", "s", "i", "o", "n", "r", "e", "g", "i", "s", "t", "r", "a", "t", "i", "o", "n", ".", "k", "8", "s", ".", "i", "o">>,
     <<"s", "c", "h", "e", "d", "u", "l", "i", "n", "g", ".", "k", "8", "s", ".", "i", "o">>,
     <<"c", "o", "o", "r", "d", "i", "n", "a", "t", "i", "o", "n", ".", "k", "8", "s", ".", "i", "o">>,
     <<"n", "o", "d", "e", ".", "k", "8", "s", ".", "i", "o">>,
     <<"d", "i", "s", "c", "o", "v", "e", "r", "y", ".", "k", "8", "s", ".", "i", "o">>,
     <<"f", "l", "o", "w", "c", "o", "n", "t", "r", "o", "l", ".", "a", "p", "i", "s", "e", "r", "v", "e", "r", ".", "k", "8", "s", ".", "i", "o">>,
     <<"c", "e", "r", "t", "i", "f", "i", "c", "a", "t", "e", "s", ".", "k", "8", "s", ".", "i", "o">> >>

----------------------------------------------------------------------------
(* path/filepath, as GenerateFilePath uses it *)

s_a == <<"a">>
s_b == <<"b">>
s_web == <<"w", "e", "b">>
s_out == <<"o", "u", "t">>
s_dot_out == <<".", "/", "o", "u", "t">>
s_tmp_out == <<"/", "t", "m", "p", "/", "o", "u", "t">>
s_out_slash == <<"o", "u", "t", "/">>
s_default == <<"d", "e", "f", "a", "u", "l", "t">>
s_dot_yaml == <<".", "y", "a", "m", "l">>
s_dot == <<".">>
s_dotdot == <<".", ".">>
s_a_up_out == <<"a", "/", ".", ".", "/", "o", "u", "t">>
s_root == <<"/">>
s_doesnotexist == <<"d", "o", "e", "s", "n", "o", "t", "e", "x", "i", "s", "t">>
s_missing == <<"m", "i", "s", "s", "i", "n", "g">>

DOT == "."

\* The backtracking of filepath.Clean on a ".." element: the write index w
\* moves left past the last element of the buffer and its separator.
RECURSIVE CleanBacktrack(_, _, _)
CleanBacktrack(buf, w, dotdot) ==
  IF w > dotdot /\ buf[w + 1] # SLASH THEN CleanBacktrack(buf, w - 1, dotdot) ELSE w

\* The end (exclusive) of the path element that starts at r.
RECURSIVE ElementEnd(_, _)
ElementEnd(path, r) ==
  IF r <= Len(path) /\ path[r] # SLASH THEN ElementEnd(path, r + 1) ELSE r

\* The main loop of filepath.Clean; r is the read index (1-based), out the
\* output buffer, dotdot the length below which out cannot backtrack.
RECURSIVE CleanLoop(_, _, _, _, _)
CleanLoop(path, r, out, dotdot, rooted) ==
  LET n == Len(path) IN
  IF r > n THEN out
  ELSE IF path[r] = SLASH THEN CleanLoop(path, r + 1, out, dotdot, rooted)
  ELSE IF path[r] = DOT /\ (r = n \/ path[r + 1] = SLASH)
    THEN CleanLoop(path, r + 1, out, dotdot, rooted)
  ELSE IF path[r] = DOT /\ path[r + 1] = DOT /\ (r + 1 = n \/ path[r + 2] = SLASH)
    THEN IF Len(out) > dotdot
           THEN LET w == CleanBacktrack(out, Len(out) - 1, dotdot)
                IN  CleanLoop(path, r + 2, SubSeq(out, 1, w), dotdot, rooted)
         ELSE IF ~rooted
           THEN LET o == (IF Len(out) > 0 THEN Append(out, SLASH) ELSE out) \o <<DOT, DOT>>
                IN  CleanLoop(path, r + 2, o, Len(o), rooted)
         ELSE CleanLoop(path, r + 2, out, dotdot, rooted)
  ELSE LET o == IF (rooted /\ Len(out) # 1) \/ (~rooted /\ Len(out) # 0)
                  THEN Append(out, SLASH) ELSE out
           e == ElementEnd(path, r)
       IN  CleanLoop(path, e, o \o SubSeq(path, r, e - 1), dotdot, rooted)

\* filepath.Clean on a system whose separator is "/".
Clean(path) ==
  IF path = <<>> THEN <<DOT>>
  ELSE LET rooted == path[1] = SLASH
           out == IF rooted THEN CleanLoop(path, 2, <<SLASH>>, 1, TRUE)
                  ELSE CleanLoop(path, 1, <<>>, 0, FALSE)
       IN  IF out = <<>> THEN <<DOT>> ELSE out

\* strings.Join(elem, "/")
RECURSIVE JoinSlash(_)
JoinSlash(elem) ==
  IF elem = <<>> THEN <<>>
  ELSE IF Len(elem) = 1 THEN elem[1]
  ELSE elem[1] \o <<SLASH>> \o JoinSlash(Tail(elem))

\* filepath.Join: the elements from the first non-empty one on, joined and
\* cleaned; "" when every element is empty.
RECURSIVE Join(_)
Join(elem) ==
  IF elem = <<>> THEN <<>>
  ELSE IF elem[1] # <<>> THEN Clean(JoinSlash(elem))
  ELSE Join(Tail(elem))

\* filepath.Dir for a cleaned path with at least one separator below the root.
RECURSIVE LastSlash(_, _)
LastSlash(path, i) == IF i = 0 \/ path[i] = SLASH THEN i ELSE LastSlash(path, i - 1)
Dir(path) == Clean(SubSeq(path, 1, LastSlash(path, Len(path))))

----------------------------------------------------------------------------
(* pkg/exporter: file paths *)

\* GenerateFilePath with the resource type above the namespace.
GenerateFilePath_TypeFirst(baseDir, namespace, resourceType, resourceName) ==
  Join(<<baseDir, resourceType, namespace, resourceName \o s_dot_yaml>>)

GenerateFilePath(baseDir, namespace, resourceType, resourceName) ==
  Join(<<baseDir, namespace, resourceType, resourceName \o s_dot_yaml>>)


----------------------------------------------------------------------------
(* pkg/exporter: manifests *)

\* A value of a map[string]interface{} document: a string, a number, a
\* mapping (m: a function on its keys) or a list (m: a sequence).
StringValue(s) == [t |-> "string", s |-> s, n |-> 0, m |-> <<>>]
NumberValue(n) == [t |-> "int64", s |-> <<>>, n |-> n, m |-> <<>>]
MapValue(m) == [t |-> "map", s |-> <<>>, n |-> 0, m |-> m]
ListValue(l) == [t |-> "slice", s |-> <<>>, n |-> 0, m |-> l]

IsMap(v) == v.t = "map"

NoKeys == [k \in {} |-> 0]

\* Go's delete(m, key) on the keys-to-values function of a map.
MapDelete(m, key) == [k \in (DOMAIN m) \ {key} |-> m[k]]

\* runtime.DeepCopyJSONValue: maps and lists are rebuilt element by element.
RECURSIVE DeepCopyJSONValue(_)
DeepCopyJSONValue(v) ==
  IF v.t \in {"map", "slice"}
    THEN [v EXCEPT !.m = [k \in DOMAIN v.m |-> DeepCopyJSONValue(v.m[k])]]
    ELSE v

\* (*Unstructured).DeepCopy, on the Object map.
DeepCopy(obj) == [k \in DOMAIN obj |-> DeepCopyJSONValue(obj[k])]

MetadataRuntimeKeys ==
  <<"managedFields", "uid", "resourceVersion", "generation", "creationTimestamp", "selfLink">>

RECURSIVE DeleteKeys(_, _)
DeleteKeys(m, keys) ==
  IF keys = <<>> THEN m ELSE DeleteKeys(MapDelete(m, Head(keys)), Tail(keys))

\* CleanManifest with selfLink left in the metadata.
CleanManifest_KeepsSelfLink(obj) ==
  LET cleaned == MapDelete(DeepCopy(obj), "status")
  IN  IF "metadata" \in DOMAIN cleaned /\ IsMap(cleaned["metadata"])
        THEN [cleaned EXCEPT !["metadata"].m =
                DeleteKeys(@, SubSeq(MetadataRuntimeKeys, 1, Len(MetadataRuntimeKeys) - 1))]
        ELSE cleaned

\* CleanManifest deleting the runtime keys at the top level as well.
CleanManifest_AlsoTopLevel(obj) ==
  LET cleaned == DeleteKeys(MapDelete(DeepCopy(obj), "status"), MetadataRuntimeKeys)
  IN  IF "metadata" \in DOMAIN cleaned /\ IsMap(cleaned["metadata"])
        THEN [cleaned EXCEPT !["metadata"].m = DeleteKeys(@, MetadataRuntimeKeys)]
        ELSE cleaned

CleanManifest(obj) ==
  LET cleaned == MapDelete(DeepCopy(obj), "status")
  IN  IF "metadata" \in DOMAIN cleaned /\ IsMap(cleaned["metadata"])
        THEN [cleaned EXCEPT !["metadata"].m = DeleteKeys(@, MetadataRuntimeKeys)]
        ELSE cleaned

\* (*Unstructured).GetName: the string at metadata.name, "" when metadata is
\* no mapping, or name is absent or no string.
GetName(obj) ==
  IF /\ "metadata" \in DOMAIN obj
     /\ IsMap(obj["metadata"])
     /\ "name" \in DOMAIN obj["metadata"].m
     /\ obj["metadata"].m["name"].t = "string"
    THEN obj["metadata"].m["name"].s
    ELSE <<>>

----------------------------------------------------------------------------
(* Manifest inputs *)

MaxMetadataKeys == 3

s_v1_value == StringValue(s_v1)

\* A nested mapping that itself holds keys named like the removed ones.
NestedValue ==
  MapValue([k \in {"status", "uid"} |-> IF k = "uid" THEN StringValue(s_a) ELSE NumberValue(1)])

\* A key that is not in the mapping.
Absent == [t |-> "absent", s |-> <<>>, n |-> 0, m |-> <<>>]

\* The mapping of the keys of r whose value is not Absent.
Present(r) == [k \in {k \in DOMAIN r : r[k] # Absent} |-> r[k]]

\* Every metadata mapping with at most MaxMetadataKeys keys.
MetadataMaps ==
  {m \in {Present(r) : r \in
            [name : {Absent, StringValue(s_a), StringValue(s_web), StringValue(<<>>),
                     NumberValue(7)},
             labels : {Absent, NestedValue},
             status : {Absent, StringValue(s_b)},
             managedFields : {Absent, ListValue(<<NestedValue>>)},
             uid : {Absent, StringValue(s_b)},
             resourceVersion : {Absent, StringValue(s_b)},
             generation : {Absent, NumberValue(2)},
             creationTimestamp : {Absent, StringValue(s_b)},
             selfLink : {Absent, StringValue(s_b)}]} :
     Cardinality(DOMAIN m) <= MaxMetadataKeys}

\* Manifest documents: any of kind, spec, status and a top-level key named
\* uid, and metadata absent, a mapping, or something that is no mapping.
ManifestObjects ==
  {Present(r) : r \in
     [kind : {Absent, s_v1_value},
      metadata : {Absent, StringValue(s_a)} \cup {MapValue(m) : m \in MetadataMaps},
      spec : {Absent, NestedValue},
      uid : {Absent, StringValue(s_a)},
      status : {Absent, NestedValue, StringValue(s_b)}]}


----------------------------------------------------------------------------
(* pkg/exporter: manifests as Go holds them, maps and slices by reference *)

\* The value of a map entry or slice element that is itself a map or slice:
\* a reference to it. An address is a sequence of strings.
Ref(a) == [t |-> "ref", s |-> a, n |-> 0, m |-> <<>>]
IsRef(c) == c.t = "ref"
IsContainer(v) == v.t \in {"map", "slice"}

\* The address element of key or index k of container v.
IndexKey(i) == <<"[0]", "[1]", "[2]">>[i]
ChildKey(v, k) == IF v.t = "slice" THEN IndexKey(k) ELSE k

\* The union of functions with disjoint domains.
MergeAll(fns) ==
  [x \in UNION {DOMAIN f : f \in fns} |-> (CHOOSE f \in fns : x \in DOMAIN f)[x]]

\* The memory holding container v at address a: one map or slice at a, whose
\* nested maps and slices lie at the addresses below a.
RECURSIVE Allocate(_, _)
Allocate(a, v) ==
  LET below == {k \in DOMAIN v.m : IsContainer(v.m[k])}
      node == [v EXCEPT !.m = [k \in DOMAIN v.m |->
                 IF k \in below THEN Ref(Append(a, ChildKey(v, k))) ELSE v.m[k]]]
  IN  MergeAll({Allocate(Append(a, ChildKey(v, k)), v.m[k]) : k \in below}
               \cup {a :> node})

\* The document a reader sees from address a.
RECURSIVE Load(_, _)
Load(h, a) ==
  [h[a] EXCEPT !.m = [k \in DOMAIN h[a].m |->
     IF IsRef(h[a].m[k]) THEN Load(h, h[a].m[k].s) ELSE h[a].m[k]]]

\* The maps and slices a reader reaches from address a.
RECURSIVE Reachable(_, _)
Reachable(h, a) ==
  {a} \cup UNION {Reachable(h, h[a].m[k].s) : k \in {k \in DOMAIN h[a].m : IsRef(h[a].m[k])}}

\* A copy that shares the nested maps and slices with the original.
DeepCopyOnHeap_Shallow(h, a, fresh) == (fresh :> h[a]) @@ h

\* obj.DeepCopy(): every map and slice of the document at a is rebuilt at
\* fresh addresses.
DeepCopyOnHeap(h, a, fresh) == Allocate(fresh, Load(h, a)) @@ h

\* delete(m, key) on the map at address a.
HeapDelete(h, a, key) == [h EXCEPT ![a].m = MapDelete(@, key)]

RECURSIVE HeapDeleteKeys(_, _, _)
HeapDeleteKeys(h, a, keys) ==
  IF keys = <<>> THEN h ELSE HeapDeleteKeys(HeapDelete(h, a, Head(keys)), a, Tail(keys))

\* m[key] = value on the map at address a.
HeapStore(h, a, key, value) ==
  [h EXCEPT ![a].m = [k \in DOMAIN @ \cup {key} |-> IF k = key THEN value ELSE @[k]]]

\* CleanManifest on the document at address obj; the copy it returns is at
\* address fresh. The result is the memory after the call.
CleanManifestOnHeap(h, obj, fresh) ==
  LET copied == DeepCopyOnHeap(h, obj, fresh)
      noStatus == HeapDelete(copied, fresh, "status")
      top == noStatus[fresh].m
  IN  IF /\ "metadata" \in DOMAIN top
         /\ IsRef(top["metadata"])
         /\ noStatus[top["metadata"].s].t = "map"
        THEN HeapDeleteKeys(noStatus, top["metadata"].s, MetadataRuntimeKeys)
        ELSE noStatus

s_obj == <<"obj">>
s_cleaned == <<"cleaned">>

----------------------------------------------------------------------------
(* pkg/k8s: resource discovery *)

excludedResources == {s_persistentvolumes, s_persistentvolumeclaims}

shouldExcludeResource(resourceName) == resourceName \in excludedResources

ResourceInfo(name, group, version, kind, namespaced) ==
  [Name |-> name, Group |-> group, Version |-> version, Kind |-> kind,
   Namespaced |-> namespaced]

\* schema.ParseGroupVersion: "" and "/" are the empty group-version, a string
\* without "/" is a version of the core group, one "/" separates group and
\* version, and more than one "/" is an error.
ParseGroupVersion(gv) ==
  IF Len(gv) = 0 \/ gv = <<SLASH>>
    THEN [Group |-> <<>>, Version |-> <<>>, err |-> FALSE]
  ELSE IF CountByte(gv, SLASH) = 0
    THEN [Group |-> <<>>, Version |-> gv, err |-> FALSE]
  ELSE IF CountByte(gv, SLASH) = 1
    THEN LET i == IndexByte(gv, SLASH)
         IN  [Group |-> SubSeq(gv, 1, i - 1),
              Version |-> SubSeq(gv, i + 1, Len(gv)), err |-> FALSE]
  ELSE [Group |-> <<>>, Version |-> <<>>, err |-> TRUE]

\* The verb loop of DiscoverResources: hasList and hasGet.
HasVerb(verbs, v) == \E i \in DOMAIN verbs : verbs[i] = v

\* KeepsAPIResource with the check for "get" left out.
KeepsAPIResource_NoGetCheck(apiResource) ==
  /\ ~ContainsByte(apiResource.Name, SLASH)
  /\ ~shouldExcludeResource(apiResource.Name)
  /\ HasVerb(apiResource.Verbs, "list")

\* The body of the inner loop: whether apiResource is appended.
KeepsAPIResource(apiResource) ==
  /\ ~ContainsByte(apiResource.Name, SLASH)
  /\ ~shouldExcludeResource(apiResource.Name)
  /\ HasVerb(apiResource.Verbs, "list")
  /\ HasVerb(apiResource.Verbs, "get")

\* The inner loop over one list's APIResources, appending to resources.
RECURSIVE AppendAPIResources(_, _, _)
AppendAPIResources(resources, gv, apiResources) ==
  IF apiResources = <<>> THEN resources
  ELSE LET apiResource == Head(apiResources)
           next == IF KeepsAPIResource(apiResource)
                     THEN Append(resources,
                                 ResourceInfo(apiResource.Name, gv.Group, gv.Version,
                                              apiResource.Kind, apiResource.Namespaced))
                     ELSE resources
       IN  AppendAPIResources(next, gv, Tail(apiResources))

\* The outer loop over the resource lists; a list whose group-version does not
\* parse is skipped.
RECURSIVE CollectResources(_, _)
CollectResources(resources, lists) ==
  IF lists = <<>> THEN resources
  ELSE LET apiResourceList == Head(lists)
           gv == ParseGroupVersion(apiResourceList.GroupVersion)
           next == IF gv.err THEN resources
                   ELSE AppendAPIResources(resources, gv, apiResourceList.APIResources)
       IN  CollectResources(next, Tail(lists))

\* priorityMap of sortResourcesByPriority: the (0-based) place of a name in
\* priorityResources, and whether it has one.
HasPriority(name) == \E i \in DOMAIN priorityResources : priorityResources[i] = name
PriorityIndex(name) == (CHOOSE i \in DOMAIN priorityResources : priorityResources[i] = name) - 1

isCustomResource(res) ==
  IF res.Group = <<>> THEN FALSE
  ELSE IF \E i \in DOMAIN standardGroups : res.Group = standardGroups[i] THEN FALSE
  ELSE TRUE

\* ResourceLess without the comparison of custom against standard.
ResourceLess_NoCustomCheck(resI, resJ) ==
  LET hasPrioI == HasPriority(resI.Name)
      hasPrioJ == HasPriority(resJ.Name)
  IN  IF hasPrioI /\ hasPrioJ THEN PriorityIndex(resI.Name) < PriorityIndex(resJ.Name)
      ELSE IF hasPrioI THEN TRUE
      ELSE IF hasPrioJ THEN FALSE
      ELSE StrLess(resI.Name, resJ.Name)

\* The less function handed to sort.SliceStable.
ResourceLess(resI, resJ) ==
  LET hasPrioI == HasPriority(resI.Name)
      hasPrioJ == HasPriority(resJ.Name)
      isCustomI == isCustomResource(resI)
      isCustomJ == isCustomResource(resJ)
  IN  IF hasPrioI /\ hasPrioJ THEN PriorityIndex(resI.Name) < PriorityIndex(resJ.Name)
      ELSE IF hasPrioI THEN TRUE
      ELSE IF hasPrioJ THEN FALSE
      ELSE IF isCustomI /\ ~isCustomJ THEN FALSE
      ELSE IF ~isCustomI /\ isCustomJ THEN TRUE
      ELSE StrLess(resI.Name, resJ.Name)

\* A pass that also moves data[j] left of an element that is not less than it.
RECURSIVE InsertLeft_PastEqual(_, _)
InsertLeft_PastEqual(data, j) ==
  IF j > 1 /\ ~ResourceLess(data[j - 1], data[j])
    THEN InsertLeft_PastEqual([data EXCEPT ![j] = data[j - 1], ![j - 1] = data[j]], j - 1)
    ELSE data

\* One pass of the insertion sort sort.SliceStable runs on a slice of fewer
\* than 20 elements: data[j] moves left while less(data[j], data[j-1]).
RECURSIVE InsertLeft(_, _)
InsertLeft(data, j) ==
  IF j > 1 /\ ResourceLess(data[j], data[j - 1])
    THEN InsertLeft([data EXCEPT ![j] = data[j - 1], ![j - 1] = data[j]], j - 1)
    ELSE data

RECURSIVE InsertionSortFrom(_, _)
InsertionSortFrom(data, i) ==
  IF i > Len(data) THEN data
  ELSE InsertionSortFrom(InsertLeft(data, i), i + 1)

sortResourcesByPriority(resources) == InsertionSortFrom(resources, 2)

IsGroupDiscoveryFailedError(err) == err = "GroupDiscoveryFailed"

\* DiscoverResources giving up on a partial group-discovery failure as well.
DiscoverResources_PartialIsFatal(lists, err) ==
  IF err # "nil"
    THEN [resources |-> <<>>, err |-> "failed to discover resources"]
    ELSE [resources |-> sortResourcesByPriority(CollectResources(<<>>, lists)),
          err |-> "nil"]

\* DiscoverResources: the returned slice and whether an error is returned.
DiscoverResources(lists, err) ==
  IF err # "nil" /\ ~IsGroupDiscoveryFailedError(err)
    THEN [resources |-> <<>>, err |-> "failed to discover resources"]
    ELSE [resources |-> sortResourcesByPriority(CollectResources(<<>>, lists)),
          err |-> "nil"]


----------------------------------------------------------------------------
(* pkg/exporter: writing *)

NewExporter(baseDir) == [BaseDir |-> baseDir, ExportedCount |-> 0]

\* The file system below the working directory and the root: the directories
\* that exist and the content of each file, by cleaned path.
EmptyFS == [dirs |-> {}, files |-> NoKeys]

\* yaml.Marshal of a document: the YAML text of exactly that document.
Marshal(document) == [yaml |-> document]

\* What an interrupted os.WriteFile leaves: the file created, its data cut short.
TruncatedData == [yaml |-> "truncated"]

\* dir and every directory above it: what os.MkdirAll creates.
RECURSIVE Ancestors(_)
Ancestors(dir) ==
  IF dir \in {<<DOT>>, <<SLASH>>} THEN {} ELSE {dir} \cup Ancestors(Dir(dir))

\* How the file system answers one WriteManifest call.
WriteOutcomes == {"ok", "mkdir fails", "marshal fails", "open fails", "write fails"}

\* WriteManifest: MkdirAll, yaml.Marshal, os.WriteFile; the first failure is
\* returned. A write that fails after the file was opened leaves the file.
\* WriteManifest opening the file for appending instead of replacing it.
WriteManifest_Appends(fsys, obj, filePath, outcome) ==
  LET dir == Dir(filePath)
      made == [fsys EXCEPT !.dirs = @ \cup Ancestors(dir)]
      put(data) == [made EXCEPT !.files =
                      [p \in (DOMAIN @) \cup {filePath} |->
                         IF p # filePath THEN @[p]
                         ELSE IF p \in DOMAIN @ THEN [kept |-> @[p], added |-> data]
                         ELSE data]]
  IN  CASE outcome = "mkdir fails" -> [fs |-> fsys, err |-> "failed to create directory"]
        [] outcome = "marshal fails" -> [fs |-> made, err |-> "failed to marshal to YAML"]
        [] outcome = "open fails" -> [fs |-> made, err |-> "failed to write file"]
        [] outcome = "write fails" -> [fs |-> put(TruncatedData), err |-> "failed to write file"]
        [] OTHER -> [fs |-> put(Marshal(obj)), err |-> "nil"]

WriteManifest(fsys, obj, filePath, outcome) ==
  LET dir == Dir(filePath)
      made == [fsys EXCEPT !.dirs = @ \cup Ancestors(dir)]
      put(data) == [made EXCEPT !.files =
                      [p \in (DOMAIN @) \cup {filePath} |-> IF p = filePath THEN data ELSE @[p]]]
  IN  CASE outcome = "mkdir fails" -> [fs |-> fsys, err |-> "failed to create directory"]
        [] outcome = "marshal fails" -> [fs |-> made, err |-> "failed to marshal to YAML"]
        [] outcome = "open fails" -> [fs |-> made, err |-> "failed to write file"]
        [] outcome = "write fails" -> [fs |-> put(TruncatedData), err |-> "failed to write file"]
        [] OTHER -> [fs |-> put(Marshal(obj)), err |-> "nil"]

\* ExportResource counting before it writes.
ExportResource_CountsFirst(e, fsys, obj, gvrResource, namespace, outcome) ==
  LET cleaned == CleanManifest(obj)
      name == GetName(cleaned)
  IN  IF name = <<>>
        THEN [e |-> e, fs |-> fsys, err |-> "resource has no name"]
        ELSE LET filePath == GenerateFilePath(e.BaseDir, namespace, gvrResource, name)
                 w == WriteManifest(fsys, cleaned, filePath, outcome)
             IN  [e |-> [e EXCEPT !.ExportedCount = @ + 1], fs |-> w.fs, err |-> w.err]

\* ExportResource without the check of the name.
ExportResource_NoNameCheck(e, fsys, obj, gvrResource, namespace, outcome) ==
  LET cleaned == CleanManifest(obj)
      filePath == GenerateFilePath(e.BaseDir, namespace, gvrResource, GetName(cleaned))
      w == WriteManifest(fsys, cleaned, filePath, outcome)
  IN  IF w.err # "nil"
        THEN [e |-> e, fs |-> w.fs, err |-> w.err]
        ELSE [e |-> [e EXCEPT !.ExportedCount = @ + 1], fs |-> w.fs, err |-> "nil"]

\* ExportResource writing the object as it was handed in.
ExportResource_WritesUncleaned(e, fsys, obj, gvrResource, namespace, outcome) ==
  LET name == GetName(obj)
  IN  IF name = <<>>
        THEN [e |-> e, fs |-> fsys, err |-> "resource has no name"]
        ELSE LET filePath == GenerateFilePath(e.BaseDir, namespace, gvrResource, name)
                 w == WriteManifest(fsys, obj, filePath, outcome)
             IN  IF w.err # "nil"
                   THEN [e |-> e, fs |-> w.fs, err |-> w.err]
                   ELSE [e |-> [e EXCEPT !.ExportedCount = @ + 1], fs |-> w.fs, err |-> "nil"]

\* ExportResource leaving a file that is already there, without counting.
ExportResource_SkipsExisting(e, fsys, obj, gvrResource, namespace, outcome) ==
  LET cleaned == CleanManifest(obj)
      name == GetName(cleaned)
  IN  IF name = <<>>
        THEN [e |-> e, fs |-> fsys, err |-> "resource has no name"]
        ELSE LET filePath == GenerateFilePath(e.BaseDir, namespace, gvrResource, name)
                 w == WriteManifest(fsys, cleaned, filePath, outcome)
             IN  IF filePath \in DOMAIN fsys.files
                   THEN [e |-> e, fs |-> fsys, err |-> "nil"]
                   ELSE IF w.err # "nil"
                     THEN [e |-> e, fs |-> w.fs, err |-> w.err]
                     ELSE [e |-> [e EXCEPT !.ExportedCount = @ + 1], fs |-> w.fs, err |-> "nil"]

\* (*Exporter).ExportResource: the exporter and file system after the call,
\* and the error returned.
ExportResource(e, fsys, obj, gvrResource, namespace, outcome) ==
  LET cleaned == CleanManifest(obj)
      name == GetName(cleaned)
  IN  IF name = <<>>
        THEN [e |-> e, fs |-> fsys, err |-> "resource has no name"]
        ELSE LET filePath == GenerateFilePath(e.BaseDir, namespace, gvrResource, name)
                 w == WriteManifest(fsys, cleaned, filePath, outcome)
             IN  IF w.err # "nil"
                   THEN [e |-> e, fs |-> w.fs, err |-> w.err]
                   ELSE [e |-> [e EXCEPT !.ExportedCount = @ + 1], fs |-> w.fs, err |-> "nil"]

\* (*Exporter).Summary
Summary(e) == [text |-> "Exported %d manifests to %s", count |-> e.ExportedCount, dir |-> e.BaseDir]


----------------------------------------------------------------------------
(* The values of the variables an operation does not use *)

IdleDiscover ==
  /\ apiResourceLists = <<>>
  /\ discovered = NotCalled
  /\ sortedDirect = NotCalled

IdleClean ==
  /\ manifest = NoKeys
  /\ cleanedOnce = NotCalled
  /\ cleanedTwice = NotCalled

IdleHeap ==
  /\ heap = <<>>
  /\ heapAtCall = <<>>
  /\ returned = <<>>
  /\ changes = 0

IdlePath ==
  /\ pathArgs = [baseDir |-> <<>>, namespace |-> <<>>, resourceType |-> <<>>,
                 resourceName |-> <<>>]
  /\ pathResults = <<>>

IdleExporter ==
  /\ exp = NewExporter(<<>>)
  /\ fs = EmptyFS
  /\ exportCalls = 0
  /\ lastExport = NotCalled

IdleRun ==
  /\ flags = [exportDryRun |-> FALSE, exportOutputDir |-> <<>>, exportNamespaces |-> <<>>,
              exportResources |-> <<>>, exportAllRes |-> FALSE]
  /\ objects = {}
  /\ pc = "idle"
  /\ selectedResources = <<>>
  /\ nsIdx = 1
  /\ resIdx = 1
  /\ items = <<>>
  /\ itemIdx = 1
  /\ stdout = <<>>
  /\ stderr = <<>>
  /\ listCalls = <<>>
  /\ faults = 0
  /\ retErr = "none"
  /\ stages = <<>>
  /\ firstRun = NotCalled

IdleHelm ==
  /\ helmFlags = [helmExportDryRun |-> FALSE, helmExportOutputDir |-> <<>>,
                  helmExportCtx |-> <<>>, helmExportNamespaces |-> <<>>,
                  helmExportReleases |-> <<>>, helmExportAll |-> FALSE]
  /\ helmInstalled = FALSE
  /\ helmReleases = {}
  /\ releasesToExport = <<>>
  /\ helmCalls = <<>>
  /\ exportedCount = 0

IdleParse ==
  /\ helmOutput = <<>>
  /\ lineIdx = 0
  /\ parsedReleases = <<>>
  /\ parsePc = "idle"

IdlePrompt ==
  /\ promptCall = NotCalled
  /\ promptResult = NotCalled

IdleGo ==
  /\ gpc = <<>>
  /\ gtmp = <<>>
  /\ gret = <<>>
  /\ mu = 0

IdleInteractive ==
  /\ interFlags = [interactiveOutputDir |-> <<>>, interactiveDryRun |-> FALSE]
  /\ clusters = <<>>
  /\ selectedContexts = <<>>
  /\ ctxIdx = 0
  /\ selectedNamespaces = <<>>
  /\ reports = <<>>

----------------------------------------------------------------------------
(* Discovery inputs *)

MaxEntries == 3

VerbsListGet == <<"list", "get">>
VerbsGetListWatch == <<"get", "list", "watch">>

APIResource(name, namespaced, verbs) ==
  [Name |-> name, Namespaced |-> namespaced, Kind |-> "Kind", Verbs |-> verbs]

\* One entry of a resource list together with the list's group-version.
EntryPool ==
  {[gv |-> gv, r |-> APIResource(n, n # s_nodes, VerbsListGet)] :
      gv \in {s_v1, s_example_com_v1}, n \in {s_deployments, s_pods, s_nodes, s_alphas}}
  \cup {[gv |-> s_apps_v1, r |-> APIResource(n, TRUE, VerbsGetListWatch)] :
      n \in {s_deployments, s_nodes}}
  \cup {[gv |-> s_v1, r |-> APIResource(n, TRUE, VerbsListGet)] :
      n \in {s_pods_status, s_persistentvolumes, s_persistentvolumeclaims}}
  \cup {[gv |-> s_v1, r |-> APIResource(s_events, TRUE, <<"get", "watch">>)],
        [gv |-> s_v1, r |-> APIResource(s_bindings, TRUE, <<"create", "list">>)],
        [gv |-> s_a_b_c, r |-> APIResource(s_pods, TRUE, VerbsListGet)]}

FlatInputs == UNION {[1..n -> EntryPool] : n \in 0..MaxEntries}

\* The resource lists of a flat input: each maximal run of entries with the
\* same group-version is one list.
RECURSIVE GroupRuns(_, _)
GroupRuns(lists, flat) ==
  IF flat = <<>> THEN lists
  ELSE LET e == Head(flat)
           n == Len(lists)
       IN  IF n > 0 /\ lists[n].GroupVersion = e.gv
             THEN GroupRuns([lists EXCEPT ![n].APIResources = Append(@, e.r)], Tail(flat))
             ELSE GroupRuns(Append(lists, [GroupVersion |-> e.gv, APIResources |-> <<e.r>>]),
                            Tail(flat))

\* Every entry of the lists as a ResourceInfo, unfiltered: an input of
\* sortResourcesByPriority.
RECURSIVE AsResourceInfos(_)
AsResourceInfos(lists) ==
  IF lists = <<>> THEN <<>>
  ELSE LET l == Head(lists)
           gv == ParseGroupVersion(l.GroupVersion)
       IN  [i \in DOMAIN l.APIResources |->
              ResourceInfo(l.APIResources[i].Name, gv.Group, gv.Version,
                           l.APIResources[i].Kind, l.APIResources[i].Namespaced)]
             \o AsResourceInfos(Tail(lists))

DiscoveryErrors == {"nil", "GroupDiscoveryFailed", "other"}

InitDiscover ==
  /\ \E flat \in FlatInputs : apiResourceLists = GroupRuns(<<>>, flat)
  /\ discovered = NotCalled
  /\ sortedDirect = NotCalled
  /\ IdleClean /\ IdleHeap /\ IdlePath /\ IdleExporter /\ IdleRun /\ IdleHelm
  /\ IdleParse /\ IdlePrompt /\ IdleGo /\ IdleInteractive

CallDiscoverResources ==
  /\ ~discovered.called
  /\ \E e \in DiscoveryErrors :
       \E ret \in {DiscoverResources(apiResourceLists, e)} :
         discovered' = [called |-> TRUE, resources |-> ret.resources, err |-> ret.err]
  /\ UNCHANGED <<apiResourceLists, sortedDirect, cleanVars, heapVars, pathVars, helmVars,
                 restVars, exporterVars, runVars>>

CallSortResourcesByPriority ==
  /\ ~sortedDirect.called
  /\ \E resources \in {AsResourceInfos(apiResourceLists)} :
         sortedDirect' = [called |-> TRUE, input |-> resources,
                          output |-> sortResourcesByPriority(resources)]
  /\ UNCHANGED <<apiResourceLists, discovered, cleanVars, heapVars, pathVars, helmVars,
                 restVars, exporterVars, runVars>>

NextDiscover == CallDiscoverResources \/ CallSortResourcesByPriority

SpecDiscover == InitDiscover /\ [][NextDiscover]_vars

\* Discovery with the error of ServerGroupsAndResources on record: lists
\* whose group-version parses and lists whose group-version does not.
ErrorEntryPool ==
  {[gv |-> s_v1, r |-> APIResource(s_pods, TRUE, VerbsListGet)],
   [gv |-> s_apps_v1, r |-> APIResource(s_deployments, TRUE, VerbsGetListWatch)],
   [gv |-> s_a_b_c, r |-> APIResource(s_pods, TRUE, VerbsListGet)],
   [gv |-> s_a_b_c, r |-> APIResource(s_alphas, TRUE, VerbsListGet)]}

InitDiscoverErrors ==
  /\ \E flat \in UNION {[1..n -> ErrorEntryPool] : n \in 0..MaxEntries} :
       apiResourceLists = GroupRuns(<<>>, flat)
  /\ discovered = NotCalled
  /\ sortedDirect = NotCalled
  /\ IdleClean /\ IdleHeap /\ IdlePath /\ IdleExporter /\ IdleRun /\ IdleHelm
  /\ IdleParse /\ IdlePrompt /\ IdleGo /\ IdleInteractive

DiscoverGivenError ==
  /\ ~discovered.called
  /\ \E e \in DiscoveryErrors :
       \E ret \in {DiscoverResources(apiResourceLists, e)} :
         discovered' = [called |-> TRUE, given |-> e, resources |-> ret.resources,
                        err |-> ret.err]
  /\ UNCHANGED <<apiResourceLists, sortedDirect, cleanVars, heapVars, pathVars, helmVars,
                 restVars, exporterVars, runVars>>

NextDiscoverErrors == DiscoverGivenError

SpecDiscoverErrors == InitDiscoverErrors /\ [][NextDiscoverErrors]_vars

----------------------------------------------------------------------------
(* Claims on discovery *)

\* Every (group-version, entry) pair of the input lists, in input order.
RECURSIVE InputEntries(_)
InputEntries(lists) ==
  IF lists = <<>> THEN <<>>
  ELSE LET l == Head(lists)
       IN  [i \in DOMAIN l.APIResources |-> [gv |-> l.GroupVersion, r |-> l.APIResources[i]]]
             \o InputEntries(Tail(lists))

Occurrences(seq, x) == Cardinality({i \in DOMAIN seq : seq[i] = x})

\* The entries C1 says are returned: group-version parses, no "/" in the name,
\* not a PV or PVC, verbs include list and get.
C1_Eligible(e) ==
  /\ ~ParseGroupVersion(e.gv).err
  /\ \A i \in DOMAIN e.r.Name : e.r.Name[i] # "/"
  /\ e.r.Name # s_persistentvolumes
  /\ e.r.Name # s_persistentvolumeclaims
  /\ \E i \in DOMAIN e.r.Verbs : e.r.Verbs[i] = "list"
  /\ \E i \in DOMAIN e.r.Verbs : e.r.Verbs[i] = "get"

C1_InfoOf(e) ==
  LET gv == ParseGroupVersion(e.gv)
  IN  ResourceInfo(e.r.Name, gv.Group, gv.Version, e.r.Kind, e.r.Namespaced)

\* C1: DiscoverResources returns an entry of the input if and only if it comes
\* from a list whose group-version parses, its name has no "/", it is not
\* persistentvolumes or persistentvolumeclaims and its verbs include list and
\* get: each such entry is returned as often as it occurs in the input, nothing
\* else is returned, and no returned entry is a subresource or a PV/PVC. (On a
\* discovery error that is not a partial group failure nothing is returned.)
C1_DiscoverFilters ==
  discovered.called =>
    LET in == InputEntries(apiResourceLists)
        out == discovered.resources
    IN  /\ \A k \in DOMAIN out :
             /\ \A i \in DOMAIN out[k].Name : out[k].Name[i] # "/"
             /\ out[k].Name \notin {s_persistentvolumes, s_persistentvolumeclaims}
             /\ \E i \in DOMAIN in : C1_Eligible(in[i]) /\ C1_InfoOf(in[i]) = out[k]
        /\ discovered.err = "nil" =>
             /\ Len(out) = Cardinality({i \in DOMAIN in : C1_Eligible(in[i])})
             /\ \A i \in DOMAIN in :
                  C1_Eligible(in[i]) =>
                    Occurrences(out, C1_InfoOf(in[i])) =
                      Cardinality({j \in DOMAIN in :
                                     C1_Eligible(in[j]) /\ C1_InfoOf(in[j]) = C1_InfoOf(in[i])})
        /\ discovered.err # "nil" => out = <<>>

\* A discovery of three entries that returned one of them and dropped a
\* subresource and an entry whose verbs lack "list".
C1_Witness ==
  /\ discovered.called
  /\ discovered.err = "nil"
  /\ Len(discovered.resources) >= 1
  /\ LET in == InputEntries(apiResourceLists)
     IN  /\ Len(in) = 3
         /\ Len(discovered.resources) = 1
         /\ \E i \in DOMAIN in : ContainsByte(in[i].r.Name, "/")
         /\ \E i \in DOMAIN in : ~HasVerb(in[i].r.Verbs, "list")

\* The three classes of C2, in the claim's words.
C2_IsPriority(res) == \E i \in 1..13 : priorityResources[i] = res.Name
C2_IsStandardGroup(g) == \E i \in DOMAIN standardGroups : standardGroups[i] = g
C2_Class(res) ==
  IF C2_IsPriority(res) THEN 1
  ELSE IF res.Group = <<>> \/ C2_IsStandardGroup(res.Group) THEN 2
  ELSE 3
C2_Place(res) == CHOOSE i \in 1..13 : priorityResources[i] = res.Name
C2_NameLeq(a, b) == a = b \/ StrLess(a, b)

C2_InOrder(out) ==
  \A i, j \in DOMAIN out :
    i < j =>
      /\ C2_Class(out[i]) <= C2_Class(out[j])
      /\ C2_Class(out[i]) = 1 /\ C2_Class(out[j]) = 1 => C2_Place(out[i]) <= C2_Place(out[j])
      /\ C2_Class(out[i]) = C2_Class(out[j]) /\ C2_Class(out[i]) # 1 =>
           C2_NameLeq(out[i].Name, out[j].Name)

C2_SameEntries(in, out) ==
  /\ Len(in) = Len(out)
  /\ \A i \in DOMAIN in : Occurrences(in, in[i]) = Occurrences(out, in[i])

\* C2: the order produced by sortResourcesByPriority, and so by
\* DiscoverResources, has every priority entry before every standard entry and
\* every standard entry before every custom entry, priority entries in the
\* order of the fixed list, standard and custom entries each in ascending name
\* order; the output holds exactly the entries of the input.
C2_SortOrder ==
  /\ sortedDirect.called =>
       /\ C2_InOrder(sortedDirect.output)
       /\ C2_SameEntries(sortedDirect.input, sortedDirect.output)
  /\ discovered.called => C2_InOrder(discovered.resources)

\* A sort whose input held a custom, a standard and a priority entry, in that
\* order, the priority entry in a custom group.
C2_Witness ==
  /\ sortedDirect.called
  /\ Len(sortedDirect.input) = 3
  /\ C2_Class(sortedDirect.input[1]) = 3
  /\ C2_Class(sortedDirect.input[2]) = 2
  /\ C2_Class(sortedDirect.input[3]) = 1
  /\ isCustomResource(sortedDirect.input[3])
  /\ C2_Class(sortedDirect.output[1]) = 1

\* The entries of seq with classification c and name n, in the order of seq.
C13_Select(seq, c, n) ==
  LET Test(e) == C2_Class(e) = c /\ e.Name = n
  IN  SelectSeq(seq, Test)

\* C13: sortResourcesByPriority is stable: the entries that have the same
\* classification and the same name stand in the output in the order they
\* had in the input.
C13_StableSort ==
  sortedDirect.called =>
    \A i \in DOMAIN sortedDirect.input :
      LET e == sortedDirect.input[i]
      IN  C13_Select(sortedDirect.output, C2_Class(e), e.Name)
            = C13_Select(sortedDirect.input, C2_Class(e), e.Name)

\* A sort of an input in which nodes of apps/v1 stood before nodes of v1,
\* both standard, and after an entry that had to move behind them.
C13_Witness ==
  /\ sortedDirect.called
  /\ Len(sortedDirect.input) = 3
  /\ sortedDirect.input[2].Name = s_nodes /\ sortedDirect.input[2].Group # <<>>
  /\ sortedDirect.input[3].Name = s_nodes /\ sortedDirect.input[3].Group = <<>>
  /\ C2_Class(sortedDirect.input[2]) = 2
  /\ C2_Class(sortedDirect.input[1]) = 3
  /\ sortedDirect.output[1] = sortedDirect.input[2]
  /\ sortedDirect.output[2] = sortedDirect.input[3]

----------------------------------------------------------------------------
(* CleanManifest applied to a manifest, and to its own result *)

InitClean ==
  /\ manifest \in ManifestObjects
  /\ cleanedOnce = NotCalled
  /\ cleanedTwice = NotCalled
  /\ IdleDiscover /\ IdleHeap /\ IdlePath /\ IdleExporter /\ IdleRun /\ IdleHelm
  /\ IdleParse /\ IdlePrompt /\ IdleGo /\ IdleInteractive

CallCleanManifest ==
  /\ ~cleanedOnce.called
  /\ cleanedOnce' = [called |-> TRUE, obj |-> CleanManifest(manifest)]
  /\ UNCHANGED <<manifest, cleanedTwice, discVars, heapVars, pathVars, helmVars, restVars,
                 exporterVars, runVars>>

CallCleanManifestAgain ==
  /\ cleanedOnce.called
  /\ ~cleanedTwice.called
  /\ cleanedTwice' = [called |-> TRUE, obj |-> CleanManifest(cleanedOnce.obj)]
  /\ UNCHANGED <<manifest, cleanedOnce, discVars, heapVars, pathVars, helmVars, restVars,
                 exporterVars, runVars>>

NextClean == CallCleanManifest \/ CallCleanManifestAgain

SpecClean == InitClean /\ [][NextClean]_vars

\* C3: CleanManifest(CleanManifest(x)) = CleanManifest(x), and CleanManifest(x)
\* has no top-level "status" key and, when its "metadata" is a mapping, none of
\* managedFields, uid, resourceVersion, generation, creationTimestamp, selfLink
\* in it.
C3_CleanIdempotent ==
  /\ cleanedOnce.called =>
       /\ "status" \notin DOMAIN cleanedOnce.obj
       /\ ("metadata" \in DOMAIN cleanedOnce.obj /\ cleanedOnce.obj["metadata"].t = "map") =>
            DOMAIN cleanedOnce.obj["metadata"].m \cap
              {"managedFields", "uid", "resourceVersion", "generation",
               "creationTimestamp", "selfLink"} = {}
  /\ cleanedTwice.called => cleanedTwice.obj = cleanedOnce.obj

\* A manifest with status, uid and selfLink, cleaned twice.
C3_Witness ==
  /\ cleanedTwice.called
  /\ "status" \in DOMAIN manifest
  /\ "metadata" \in DOMAIN manifest
  /\ manifest["metadata"].t = "map"
  /\ {"uid", "selfLink", "name"} \subseteq DOMAIN manifest["metadata"].m
  /\ cleanedOnce.obj # manifest

\* The keys CleanManifest removes from a metadata mapping.
C12_Removed ==
  {"managedFields", "uid", "resourceVersion", "generation", "creationTimestamp", "selfLink"}

C12_MetadataIsMap(obj) == "metadata" \in DOMAIN obj /\ obj["metadata"].t = "map"

\* C12: CleanManifest(x) is x without the top-level key status and without
\* the six runtime keys of a metadata mapping; every other key, at the top
\* level and in metadata, is there with the value it had, nested values
\* included.
C12_OnlyRuntimeKeysRemoved ==
  cleanedOnce.called =>
    LET x == manifest
        c == cleanedOnce.obj
    IN  /\ DOMAIN c = DOMAIN x \ {"status"}
        /\ \A k \in DOMAIN c : (k # "metadata" \/ ~C12_MetadataIsMap(x)) => c[k] = x[k]
        /\ C12_MetadataIsMap(x) =>
             /\ c["metadata"].t = "map"
             /\ DOMAIN c["metadata"].m = DOMAIN x["metadata"].m \ C12_Removed
             /\ \A k \in DOMAIN c["metadata"].m : c["metadata"].m[k] = x["metadata"].m[k]

\* A cleaned manifest that has a top-level uid, a spec holding nested keys
\* named status and uid, and metadata with uid, a key named status and labels.
C12_Witness ==
  /\ cleanedOnce.called
  /\ {"status", "uid", "spec", "metadata"} \subseteq DOMAIN manifest
  /\ {"status", "uid"} \subseteq DOMAIN manifest["spec"].m
  /\ C12_MetadataIsMap(manifest)
  /\ {"uid", "status", "labels"} \subseteq DOMAIN manifest["metadata"].m
  /\ cleanedOnce.obj["uid"] = manifest["uid"]
  /\ "uid" \notin DOMAIN cleanedOnce.obj["metadata"].m

----------------------------------------------------------------------------
(* CleanManifest on a document in memory, and a caller that goes on to change
   the document it got back *)

MaxChanges == 1

\* The documents in memory: those whose metadata is a mapping with labels.
HeapManifests ==
  {x \in ManifestObjects :
     /\ "metadata" \in DOMAIN x
     /\ IsMap(x["metadata"])
     /\ "labels" \in DOMAIN x["metadata"].m}

\* What the caller writes into the returned document.
ChangedValue == StringValue(s_missing)

InitHeap ==
  /\ \E x \in HeapManifests : heap = Allocate(s_obj, MapValue(x))
  /\ heapAtCall = <<>>
  /\ returned = <<>>
  /\ changes = 0
  /\ IdleDiscover /\ IdleClean /\ IdlePath /\ IdleExporter /\ IdleRun /\ IdleHelm
  /\ IdleParse /\ IdlePrompt /\ IdleGo /\ IdleInteractive

CallCleanManifestOnHeap ==
  /\ returned = <<>>
  /\ heap' = CleanManifestOnHeap(heap, s_obj, s_cleaned)
  /\ heapAtCall' = heap
  /\ returned' = s_cleaned
  /\ UNCHANGED <<changes, discVars, cleanVars, pathVars, helmVars, restVars, exporterVars, runVars>>

\* The caller deletes a key of a map of the returned document.
DeleteInReturned ==
  /\ returned # <<>>
  /\ changes < MaxChanges
  /\ \E a \in Reachable(heap, returned) :
       /\ heap[a].t = "map"
       /\ \E k \in DOMAIN heap[a].m : heap' = HeapDelete(heap, a, k)
  /\ changes' = changes + 1
  /\ UNCHANGED <<heapAtCall, returned, discVars, cleanVars, pathVars, helmVars, restVars,
                 exporterVars, runVars>>

\* The caller sets a key of a map of the returned document.
StoreInReturned ==
  /\ returned # <<>>
  /\ changes < MaxChanges
  /\ \E a \in Reachable(heap, returned) :
       /\ heap[a].t = "map"
       /\ \E k \in DOMAIN heap[a].m \cup {"annotations"} :
            heap' = HeapStore(heap, a, k, ChangedValue)
  /\ changes' = changes + 1
  /\ UNCHANGED <<heapAtCall, returned, discVars, cleanVars, pathVars, helmVars, restVars,
                 exporterVars, runVars>>

NextHeap == CallCleanManifestOnHeap \/ DeleteInReturned \/ StoreInReturned

SpecHeap == InitHeap /\ [][NextHeap]_vars

\* C11: CleanManifest does not mutate its argument: after the call, and after
\* any later change to the returned document, every map and slice of the
\* argument is as it was when the call was made, so the argument's document
\* is the same.
C11_ArgumentUntouched ==
  returned # <<>> =>
    /\ \A a \in DOMAIN heapAtCall : heap[a] = heapAtCall[a]
    /\ Load(heap, s_obj) = Load(heapAtCall, s_obj)
    /\ Reachable(heap, returned) \cap DOMAIN heapAtCall = {}

\* A document with status and uid was cleaned, and the caller then changed
\* the labels of the returned document.
C11_Witness ==
  /\ returned # <<>>
  /\ changes = 1
  /\ "status" \in DOMAIN heapAtCall[s_obj].m
  /\ "uid" \in DOMAIN heapAtCall[<<"obj", "metadata">>].m
  /\ "status" \notin DOMAIN heap[returned].m
  /\ Load(heap, <<"cleaned", "metadata", "labels">>)
       # Load(heap, <<"obj", "metadata", "labels">>)

----------------------------------------------------------------------------
(* GenerateFilePath called repeatedly with the same arguments *)

MaxPathCalls == 2

PathBaseDirs ==
  {s_out, s_dot_out, s_tmp_out, s_out_slash, s_dot, s_dotdot, s_root, s_a_up_out, <<>>}
PathNamespaces == {s_default, s_dot, s_dotdot, <<>>}
PathResourceTypes == {s_pods, s_nodes, <<>>}
PathNames == {s_a, s_web, s_dot, s_dotdot, <<>>}

InitPath ==
  /\ pathArgs \in [baseDir : PathBaseDirs, namespace : PathNamespaces,
                   resourceType : PathResourceTypes, resourceName : PathNames]
  /\ pathResults = <<>>
  /\ IdleDiscover /\ IdleClean /\ IdleHeap /\ IdleExporter /\ IdleRun /\ IdleHelm
  /\ IdleParse /\ IdlePrompt /\ IdleGo /\ IdleInteractive

CallGenerateFilePath ==
  /\ Len(pathResults) < MaxPathCalls
  /\ pathResults' = Append(pathResults,
                           GenerateFilePath(pathArgs.baseDir, pathArgs.namespace,
                                            pathArgs.resourceType, pathArgs.resourceName))
  /\ UNCHANGED <<pathArgs, discVars, cleanVars, heapVars, helmVars, restVars, exporterVars,
                 runVars>>

NextPath == CallGenerateFilePath

SpecPath == InitPath /\ [][NextPath]_vars

\* The string {baseDir}/{namespace}/{resourceType}/{name}.yaml.
C4_Literal(a) ==
  a.baseDir \o <<"/">> \o a.namespace \o <<"/">> \o a.resourceType \o <<"/">>
    \o a.resourceName \o <<".", "y", "a", "m", "l">>

\* C4 as stated: with name non-empty, every call returns exactly
\* {baseDir}/{namespace}/{resourceType}/{name}.yaml.
C4_Original ==
  pathArgs.resourceName # <<>> =>
    \A i \in DOMAIN pathResults : pathResults[i] = C4_Literal(pathArgs)

\* The path elements of s: the substrings between its "/" bytes.
RECURSIVE C4_Elements(_, _)
C4_Elements(s, cur) ==
  IF s = <<>> THEN <<cur>>
  ELSE IF Head(s) = "/" THEN <<cur>> \o C4_Elements(Tail(s), <<>>)
  ELSE C4_Elements(Tail(s), Append(cur, Head(s)))

\* baseDir is written in clean form: no empty or "." element, no ".." after
\* another element, no trailing "/", and it is not the root.
C4_PlainBaseDir(b) ==
  LET es == C4_Elements(b, <<>>)
      first == IF b[1] = "/" THEN 2 ELSE 1
  IN  /\ b # <<>>
      /\ b # <<"/">>
      /\ \A i \in first..Len(es) : es[i] # <<>> /\ es[i] # <<".">>
      /\ \A i \in first..Len(es) :
           es[i] = <<".", ".">> => b[1] # "/" /\ \A j \in 1..i : es[j] = <<".", ".">>

C4_PlainElement(e) ==
  /\ e # <<>>
  /\ e # <<".">>
  /\ e # <<".", ".">>
  /\ \A i \in DOMAIN e : e[i] # "/"

\* C4 (amended): with name non-empty, every call returns the same string; it
\* is exactly {baseDir}/{namespace}/{resourceType}/{name}.yaml when baseDir is
\* in clean form and namespace and resourceType are single non-empty path
\* elements other than "." and ".." and name has no "/"; in every case it
\* holds no empty or "." element, ends in {name}.yaml, and differs from the
\* literal string only by the lexical cleaning of filepath.Join.
C4_JoinedPath ==
  pathArgs.resourceName # <<>> =>
    \A i \in DOMAIN pathResults :
      LET p == pathResults[i]
          es == C4_Elements(p, <<>>)
          last == pathArgs.resourceName \o <<".", "y", "a", "m", "l">>
      IN  /\ p = pathResults[1]
          /\ (/\ C4_PlainBaseDir(pathArgs.baseDir)
              /\ C4_PlainElement(pathArgs.namespace)
              /\ C4_PlainElement(pathArgs.resourceType)
              /\ \A k \in DOMAIN pathArgs.resourceName : pathArgs.resourceName[k] # "/")
               => p = C4_Literal(pathArgs)
          /\ \A k \in 2..Len(es) : es[k] # <<>> /\ es[k] # <<".">>
          /\ Len(p) >= Len(last)
          /\ SubSeq(p, Len(p) - Len(last) + 1, Len(p)) = last
          /\ Len(p) <= Len(C4_Literal(pathArgs))

\* Two calls with a plain base directory for which the literal string is
\* returned.
C4_Witness ==
  /\ Len(pathResults) = 2
  /\ pathArgs.resourceName # <<>>
  /\ pathArgs.baseDir = <<"/", "t", "m", "p", "/", "o", "u", "t">>
  /\ pathArgs.namespace # <<>>
  /\ pathArgs.resourceType # <<>>
  /\ pathResults[2] = C4_Literal(pathArgs)


----------------------------------------------------------------------------
(* ExportResource called directly on an Exporter *)

MaxExportCalls == 2

\* Objects handed to ExportResource: named, unnamed in several ways, with and
\* without runtime fields.
ExporterObjects ==
  {Present(r) : r \in
     [kind : {s_v1_value},
      metadata : {Absent, StringValue(s_a),
                  MapValue(NoKeys),
                  MapValue([k \in {"uid"} |-> StringValue(s_b)]),
                  MapValue([k \in {"name"} |-> StringValue(<<>>)]),
                  MapValue([k \in {"name"} |-> NumberValue(7)]),
                  MapValue([k \in {"name"} |-> StringValue(s_a)]),
                  MapValue([k \in {"name", "uid"} |-> StringValue(s_web)])},
      status : {Absent, NestedValue}]}

InitExporter ==
  /\ exp \in {NewExporter(d) : d \in {s_out, s_dot_out}}
  /\ fs = EmptyFS
  /\ exportCalls = 0
  /\ lastExport = NotCalled
  /\ IdleDiscover /\ IdleClean /\ IdleHeap /\ IdlePath /\ IdleRun /\ IdleHelm
  /\ IdleParse /\ IdlePrompt /\ IdleGo /\ IdleInteractive

CallExportResource ==
  /\ exportCalls < MaxExportCalls
  /\ \E obj \in ExporterObjects, namespace \in {s_default, <<>>}, outcome \in WriteOutcomes :
       \E ret \in {ExportResource(exp, fs, obj, s_pods, namespace, outcome)} :
           /\ exp' = ret.e
           /\ fs' = ret.fs
           /\ lastExport' = [called |-> TRUE, obj |-> obj, namespace |-> namespace,
                             err |-> ret.err, expBefore |-> exp, fsBefore |-> fs]
  /\ exportCalls' = exportCalls + 1
  /\ UNCHANGED <<discVars, cleanVars, heapVars, pathVars, helmVars, restVars, runVars>>

NextExporter == CallExportResource

SpecExporter == InitExporter /\ [][NextExporter]_vars

----------------------------------------------------------------------------
(* cmd: helpers of the export command *)

\* validateExportFlags accepting every combination of flags.
validateExportFlags_AcceptsAll(allRes, resources) == "nil"

validateExportFlags(allRes, resources) ==
  IF ~allRes /\ Len(resources) = 0
    THEN "either --resources or --all-resources is required"
    ELSE "nil"

\* buildResourceMap: the map from each name to the last resource of that name.
buildResourceMap(resources) ==
  [name \in {resources[i].Name : i \in DOMAIN resources} |->
     resources[CHOOSE i \in DOMAIN resources :
                 /\ resources[i].Name = name
                 /\ \A j \in DOMAIN resources : resources[j].Name = name => j <= i]]

\* selectRequestedResources building its result back to front.
RECURSIVE selectRequestedResources_Reversed(_, _)
selectRequestedResources_Reversed(resourceMap, requested) ==
  IF requested = <<>> THEN [selected |-> <<>>, notFound |-> <<>>]
  ELSE LET resName == Head(requested)
           rest == selectRequestedResources_Reversed(resourceMap, Tail(requested))
       IN  IF resName \in DOMAIN resourceMap
             THEN [selected |-> rest.selected \o <<resourceMap[resName]>>,
                   notFound |-> rest.notFound]
             ELSE [selected |-> rest.selected,
                   notFound |-> rest.notFound \o <<resName>>]

RECURSIVE selectRequestedResources(_, _)
selectRequestedResources(resourceMap, requested) ==
  IF requested = <<>> THEN [selected |-> <<>>, notFound |-> <<>>]
  ELSE LET resName == Head(requested)
           rest == selectRequestedResources(resourceMap, Tail(requested))
       IN  IF resName \in DOMAIN resourceMap
             THEN [selected |-> <<resourceMap[resName]>> \o rest.selected,
                   notFound |-> rest.notFound]
             ELSE [selected |-> rest.selected,
                   notFound |-> <<resName>> \o rest.notFound]

\* shouldProcessResource without the scope check.
shouldProcessResource_Always(resource, namespace) == TRUE

shouldProcessResource(resource, namespace) ==
  IF ~resource.Namespaced /\ namespace # <<>> THEN FALSE ELSE TRUE

\* The run goes on with nothing selected.
NoValidResources_Never(selected) == FALSE

\* The dry-run flag is not looked at.
ItemIsPreview_Never == FALSE

\* runExport, line 115: nothing was selected.
NoValidResources(selected) == Len(selected) = 0

\* runExport, line 151: the item is only announced.
ItemIsPreview == flags.exportDryRun

formatOutputMessage(dryRun, namespace, resourceType, resourceName) ==
  IF dryRun
    THEN [text |-> "[DRY-RUN] Would export: ",
          arg |-> namespace \o <<SLASH>> \o resourceType \o <<SLASH>> \o resourceName]
    ELSE [text |-> "Exported: ",
          arg |-> namespace \o <<SLASH>> \o resourceType \o <<SLASH>> \o resourceName]

----------------------------------------------------------------------------
(* The cluster the export command talks to *)

MaxObjects == 2
MaxFaults == 1

s_kube_system == <<"k", "u", "b", "e", "-", "s", "y", "s", "t", "e", "m">>
s_example_com == <<"e", "x", "a", "m", "p", "l", "e", ".", "c", "o", "m">>

\* The objects a cluster may hold, in the order list calls return them.
ClusterUniverse ==
  << [group |-> <<>>, resource |-> s_pods, namespace |-> s_default, name |-> s_a],
     [group |-> <<>>, resource |-> s_pods, namespace |-> s_default, name |-> s_web],
     [group |-> <<>>, resource |-> s_pods, namespace |-> s_kube_system, name |-> s_a],
     [group |-> <<>>, resource |-> s_nodes, namespace |-> <<>>, name |-> s_a],
     [group |-> s_example_com, resource |-> s_pods, namespace |-> s_default, name |-> s_a] >>

\* The document the API returns for an object: server-assigned fields included.
ObjectDocument(o) ==
  Present([apiVersion |-> StringValue(IF o.group = <<>> THEN s_v1 ELSE s_example_com_v1),
           kind |-> StringValue(o.resource),
           metadata |-> MapValue(Present(
             [name |-> StringValue(o.name),
              namespace |-> IF o.namespace = <<>> THEN Absent ELSE StringValue(o.namespace),
              uid |-> StringValue(s_b),
              resourceVersion |-> StringValue(s_v1)])),
           spec |-> NestedValue,
           status |-> NestedValue])

\* The items of a successful list call of the dynamic client: the objects of
\* the resource, of one namespace or (namespace "") of all.
RECURSIVE ListItems(_, _, _, _)
ListItems(objs, k, resource, namespace) ==
  IF k > Len(ClusterUniverse) THEN <<>>
  ELSE LET o == ClusterUniverse[k]
           here == /\ k \in objs
                   /\ o.group = resource.Group
                   /\ o.resource = resource.Name
                   /\ (namespace # <<>> => o.namespace = namespace)
       IN  (IF here THEN <<ObjectDocument(o)>> ELSE <<>>)
             \o ListItems(objs, k + 1, resource, namespace)

CoreList ==
  [GroupVersion |-> s_v1,
   APIResources |-> <<APIResource(s_pods, TRUE, VerbsListGet),
                      APIResource(s_nodes, FALSE, VerbsGetListWatch),
                      APIResource(s_pods_status, TRUE, VerbsListGet)>>]
CustomList ==
  [GroupVersion |-> s_example_com_v1,
   APIResources |-> <<APIResource(s_pods, TRUE, VerbsListGet)>>]

RunApiLists == {<<CoreList>>, <<CoreList, CustomList>>}

RequestedChoices ==
  {<<>>, <<s_pods>>, <<s_nodes, s_pods>>, <<s_pods, s_doesnotexist>>,
   <<s_nodes, s_doesnotexist, s_pods>>, <<s_doesnotexist, s_pods, s_doesnotexist>>,
   <<s_doesnotexist, s_missing>>, <<s_pods, s_pods>>}

NamespaceChoices ==
  {<<s_default>>, <<s_default, s_kube_system>>, <<<<>>>>, <<s_kube_system, s_kube_system>>}

----------------------------------------------------------------------------
(* cmd: runExport *)

Init ==
  /\ flags \in [exportDryRun : BOOLEAN, exportOutputDir : {s_out, s_dot_out},
                exportNamespaces : NamespaceChoices, exportResources : RequestedChoices,
                exportAllRes : BOOLEAN]
  /\ flags.exportAllRes => flags.exportResources \in {<<>>, <<s_pods>>}
  /\ apiResourceLists \in RunApiLists
  /\ objects \in {os \in SUBSET DOMAIN ClusterUniverse : Cardinality(os) <= MaxObjects}
  /\ discovered = NotCalled
  /\ pc = "validate"
  /\ selectedResources = <<>>
  /\ nsIdx = 1
  /\ resIdx = 1
  /\ items = <<>>
  /\ itemIdx = 1
  /\ exp = NewExporter(<<>>)
  /\ fs = EmptyFS
  /\ stdout = <<>>
  /\ stderr = <<>>
  /\ listCalls = <<>>
  /\ exportCalls = 0
  /\ faults = 0
  /\ retErr = "none"
  /\ stages = <<>>
  /\ firstRun = NotCalled
  /\ sortedDirect = NotCalled
  /\ lastExport = NotCalled
  /\ IdleClean /\ IdleHeap /\ IdlePath /\ IdleHelm
  /\ IdleParse /\ IdlePrompt /\ IdleGo /\ IdleInteractive

Return(err) == pc' = "done" /\ retErr' = err

\* The stages entered so far, with stage added when it is entered first.
Entered(entered, stage) ==
  IF \E i \in DOMAIN entered : entered[i] = stage THEN entered ELSE Append(entered, stage)

\* runExport, lines 57-60
ValidateFlags ==
  /\ pc = "validate"
  /\ LET err == validateExportFlags(flags.exportAllRes, flags.exportResources)
     IN  IF err # "nil" THEN Return(err) ELSE pc' = "loadKubeConfig" /\ UNCHANGED retErr
  /\ UNCHANGED <<sortedDirect, cleanVars, heapVars, pathVars, helmVars, restVars, lastExport,
                 firstRun>>
  /\ stages' = Entered(stages, "validate flags")
  /\ UNCHANGED <<flags, apiResourceLists, objects, discovered, selectedResources, nsIdx,
                 resIdx, items, itemIdx, exp, fs, stdout, stderr, listCalls, exportCalls,
                 faults>>

\* runExport, lines 62-73
LoadKubeConfig ==
  /\ pc = "loadKubeConfig"
  /\ \/ pc' = "newClient" /\ UNCHANGED <<retErr, faults>>
     \/ faults < MaxFaults /\ faults' = faults + 1 /\ Return("failed to load kubeconfig")
  /\ UNCHANGED <<sortedDirect, cleanVars, heapVars, pathVars, helmVars, restVars, lastExport,
                 firstRun>>
  /\ stages' = Entered(stages, "load kubeconfig")
  /\ UNCHANGED <<flags, apiResourceLists, objects, discovered, selectedResources, nsIdx,
                 resIdx, items, itemIdx, exp, fs, stdout, stderr, listCalls, exportCalls>>

\* runExport, lines 75-86
NewClient ==
  /\ pc = "newClient"
  /\ \/ /\ pc' = "discover"
        /\ stdout' = Append(stdout, [text |-> "Using context: "])
        /\ UNCHANGED <<retErr, faults>>
     \/ /\ faults < MaxFaults
        /\ faults' = faults + 1
        /\ Return("failed to create client for context")
        /\ UNCHANGED stdout
  /\ UNCHANGED <<sortedDirect, cleanVars, heapVars, pathVars, helmVars, restVars, lastExport,
                 firstRun>>
  /\ stages' = Entered(stages, "create client")
  /\ UNCHANGED <<flags, apiResourceLists, objects, discovered, selectedResources, nsIdx,
                 resIdx, items, itemIdx, exp, fs, stderr, listCalls, exportCalls>>

\* runExport, lines 88-97
Discover ==
  /\ pc = "discover"
  /\ \E e \in DiscoveryErrors :
       /\ e # "nil" => faults < MaxFaults
       /\ faults' = IF e = "nil" THEN faults ELSE faults + 1
       /\ \E ret \in {DiscoverResources(apiResourceLists, e)} :
              /\ discovered' = [called |-> TRUE, resources |-> ret.resources, err |-> ret.err]
              /\ IF ret.err # "nil"
                   THEN Return("failed to discover resources")
                   ELSE pc' = "select" /\ UNCHANGED retErr
  /\ UNCHANGED <<sortedDirect, cleanVars, heapVars, pathVars, helmVars, restVars, lastExport,
                 firstRun>>
  /\ stages' = Entered(stages, "discover resources")
  /\ UNCHANGED <<flags, apiResourceLists, objects, selectedResources, nsIdx, resIdx, items,
                 itemIdx, exp, fs, stdout, stderr, listCalls, exportCalls>>

RECURSIVE NotFoundWarnings(_)
NotFoundWarnings(notFound) ==
  IF notFound = <<>> THEN <<>>
  ELSE <<[text |-> "Warning: resource type %s not found in cluster", arg |-> Head(notFound)]>>
         \o NotFoundWarnings(Tail(notFound))

\* runExport, lines 99-127: the selection of the resource types, and the
\* construction of the exporter.
SelectResources ==
  /\ pc = "select"
  /\ IF flags.exportAllRes
       THEN /\ selectedResources' = discovered.resources
            /\ stdout' = stdout \o
                 <<[text |-> "Exporting all resource types", n |-> Len(discovered.resources)],
                   [text |-> "Exporting from namespace(s)", arg |-> flags.exportNamespaces],
                   [text |-> "Exporting manifests..."]>>
            /\ exp' = NewExporter(flags.exportOutputDir)
            /\ pc' = "loop"
            /\ UNCHANGED <<stderr, retErr>>
       ELSE \E sel \in {selectRequestedResources(buildResourceMap(discovered.resources),
                                                    flags.exportResources)} :
                /\ selectedResources' = sel.selected
                /\ stderr' = stderr \o NotFoundWarnings(sel.notFound)
                /\ IF NoValidResources(sel.selected)
                     THEN /\ Return("no valid resource types found")
                          /\ UNCHANGED <<stdout, exp>>
                     ELSE /\ stdout' = stdout \o
                               <<[text |-> "Exporting resource type(s)",
                                  n |-> Len(sel.selected), arg |-> flags.exportResources],
                                 [text |-> "Exporting from namespace(s)",
                                  arg |-> flags.exportNamespaces],
                                 [text |-> "Exporting manifests..."]>>
                          /\ exp' = NewExporter(flags.exportOutputDir)
                          /\ pc' = "loop"
                          /\ UNCHANGED retErr
  /\ UNCHANGED <<sortedDirect, cleanVars, heapVars, pathVars, helmVars, restVars, lastExport,
                 firstRun>>
  /\ UNCHANGED <<stages, flags, apiResourceLists, objects, discovered, nsIdx, resIdx, items, itemIdx,
                 fs, listCalls, exportCalls, faults>>

InLoop ==
  /\ pc = "loop"
  /\ nsIdx <= Len(flags.exportNamespaces)
  /\ resIdx <= Len(selectedResources)

\* The inner loop is over: the next namespace.
NextNamespace ==
  /\ pc = "loop"
  /\ nsIdx <= Len(flags.exportNamespaces)
  /\ resIdx > Len(selectedResources)
  /\ nsIdx' = nsIdx + 1
  /\ resIdx' = 1
  /\ UNCHANGED <<sortedDirect, cleanVars, heapVars, pathVars, helmVars, restVars, lastExport,
                 firstRun>>
  /\ UNCHANGED <<stages, flags, apiResourceLists, objects, discovered, selectedResources, pc, items,
                 itemIdx, exp, fs, stdout, stderr, listCalls, exportCalls, faults, retErr>>

\* runExport, lines 130-132
SkipResource ==
  /\ InLoop
  /\ ~shouldProcessResource(selectedResources[resIdx], flags.exportNamespaces[nsIdx])
  /\ resIdx' = resIdx + 1
  /\ UNCHANGED <<sortedDirect, cleanVars, heapVars, pathVars, helmVars, restVars, lastExport,
                 firstRun>>
  /\ UNCHANGED <<stages, flags, apiResourceLists, objects, discovered, selectedResources, pc, nsIdx,
                 items, itemIdx, exp, fs, stdout, stderr, listCalls, exportCalls, faults,
                 retErr>>

\* ListResources listing the same pair again after a failed list call.
ListResources_RetriesOnError ==
  /\ InLoop
  /\ stages' = Entered(stages, "list")
  /\ LET resource == selectedResources[resIdx]
         namespace == flags.exportNamespaces[nsIdx]
         call == [namespace |-> IF resource.Namespaced THEN namespace ELSE <<>>,
                  namespaced |-> resource.Namespaced,
                  group |-> resource.Group, version |-> resource.Version,
                  resource |-> resource.Name]
     IN  /\ shouldProcessResource(resource, namespace)
         /\ \/ /\ faults < MaxFaults
               /\ faults' = faults + 1
               /\ listCalls' = Append(listCalls, [call |-> call, err |-> TRUE, items |-> <<>>])
               /\ stderr' = Append(stderr, [text |-> "Warning: failed to list %s in %s",
                                            arg |-> <<resource.Name, namespace>>])
               /\ UNCHANGED <<pc, resIdx, items, itemIdx>>
            \/ \E got \in {ListItems(objects, 1, resource, call.namespace)} :
                   /\ listCalls' = Append(listCalls, [call |-> call, err |-> FALSE, items |-> got])
                   /\ UNCHANGED <<faults, stderr>>
                   /\ IF got = <<>>
                        THEN resIdx' = resIdx + 1 /\ UNCHANGED <<pc, items, itemIdx>>
                        ELSE pc' = "items" /\ items' = got /\ itemIdx' = 1 /\ UNCHANGED resIdx
  /\ UNCHANGED <<sortedDirect, cleanVars, heapVars, pathVars, helmVars, restVars, lastExport,
                 firstRun>>
  /\ UNCHANGED <<flags, apiResourceLists, objects, discovered, selectedResources, nsIdx, exp,
                 fs, stdout, exportCalls, retErr>>

\* ListResources returning the list error from runExport.
ListResources_FailureAborts ==
  /\ InLoop
  /\ LET resource == selectedResources[resIdx]
         namespace == flags.exportNamespaces[nsIdx]
         call == [namespace |-> IF resource.Namespaced THEN namespace ELSE <<>>,
                  namespaced |-> resource.Namespaced,
                  group |-> resource.Group, version |-> resource.Version,
                  resource |-> resource.Name]
     IN  /\ shouldProcessResource(resource, namespace)
         /\ \/ /\ faults < MaxFaults
               /\ faults' = faults + 1
               /\ listCalls' = Append(listCalls, [call |-> call, err |-> TRUE, items |-> <<>>])
               /\ stderr' = Append(stderr, [text |-> "Warning: failed to list %s in %s",
                                            arg |-> <<resource.Name, namespace>>])
               /\ Return("failed to list")
               /\ UNCHANGED <<resIdx, items, itemIdx>>
            \/ \E got \in {ListItems(objects, 1, resource, call.namespace)} :
                   /\ listCalls' = Append(listCalls, [call |-> call, err |-> FALSE, items |-> got])
                   /\ UNCHANGED <<faults, stderr, retErr>>
                   /\ IF got = <<>>
                        THEN resIdx' = resIdx + 1 /\ UNCHANGED <<pc, items, itemIdx>>
                        ELSE pc' = "items" /\ items' = got /\ itemIdx' = 1 /\ UNCHANGED resIdx
  /\ UNCHANGED <<sortedDirect, cleanVars, heapVars, pathVars, helmVars, restVars, lastExport,
                 firstRun>>
  /\ stages' = Entered(stages, "list")
  /\ UNCHANGED <<flags, apiResourceLists, objects, discovered, selectedResources, nsIdx, exp,
                 fs, stdout, exportCalls>>

\* runExport, lines 134-147: the list call of one pair, which may fail.
ListResources ==
  /\ InLoop
  /\ LET resource == selectedResources[resIdx]
         namespace == flags.exportNamespaces[nsIdx]
         call == [namespace |-> IF resource.Namespaced THEN namespace ELSE <<>>,
                  namespaced |-> resource.Namespaced,
                  group |-> resource.Group, version |-> resource.Version,
                  resource |-> resource.Name]
     IN  /\ shouldProcessResource(resource, namespace)
         /\ \/ /\ faults < MaxFaults
               /\ faults' = faults + 1
               /\ listCalls' = Append(listCalls, [call |-> call, err |-> TRUE, items |-> <<>>])
               /\ stderr' = Append(stderr, [text |-> "Warning: failed to list %s in %s",
                                            arg |-> <<resource.Name, namespace>>])
               /\ resIdx' = resIdx + 1
               /\ UNCHANGED <<pc, items, itemIdx>>
            \/ \E got \in {ListItems(objects, 1, resource, call.namespace)} :
                   /\ listCalls' = Append(listCalls, [call |-> call, err |-> FALSE, items |-> got])
                   /\ UNCHANGED <<faults, stderr>>
                   /\ IF got = <<>>
                        THEN resIdx' = resIdx + 1 /\ UNCHANGED <<pc, items, itemIdx>>
                        ELSE pc' = "items" /\ items' = got /\ itemIdx' = 1 /\ UNCHANGED resIdx
  /\ UNCHANGED <<sortedDirect, cleanVars, heapVars, pathVars, helmVars, restVars, lastExport,
                 firstRun>>
  /\ stages' = Entered(stages, "list")
  /\ UNCHANGED <<flags, apiResourceLists, objects, discovered, selectedResources, nsIdx, exp,
                 fs, stdout, exportCalls, retErr>>

\* After the item at itemIdx: the next item, or the next resource type.
AdvanceItem ==
  IF itemIdx = Len(items)
    THEN pc' = "loop" /\ resIdx' = resIdx + 1 /\ items' = <<>> /\ itemIdx' = 1
    ELSE itemIdx' = itemIdx + 1 /\ UNCHANGED <<pc, resIdx, items>>

\* runExport, lines 151-154
DryRunItem ==
  /\ pc = "items"
  /\ ItemIsPreview
  /\ stdout' = Append(stdout,
                      formatOutputMessage(TRUE, flags.exportNamespaces[nsIdx],
                                          selectedResources[resIdx].Name,
                                          GetName(items[itemIdx])))
  /\ AdvanceItem
  /\ UNCHANGED <<sortedDirect, cleanVars, heapVars, pathVars, helmVars, restVars, lastExport,
                 firstRun>>
  /\ UNCHANGED <<stages, flags, apiResourceLists, objects, discovered, selectedResources, nsIdx, exp,
                 fs, stderr, listCalls, exportCalls, faults, retErr>>

\* runExport, lines 156-160
ExportItem ==
  /\ pc = "items"
  /\ ~ItemIsPreview
  /\ \E outcome \in WriteOutcomes :
       /\ outcome # "ok" => faults < MaxFaults
       /\ faults' = IF outcome = "ok" THEN faults ELSE faults + 1
       /\ \E resource \in {selectedResources[resIdx]},
             namespace \in {flags.exportNamespaces[nsIdx]},
             item \in {items[itemIdx]} :
           \E ret \in {ExportResource(exp, fs, item, resource.Name, namespace, outcome)} :
              /\ exp' = ret.e
              /\ fs' = ret.fs
              /\ exportCalls' = exportCalls + 1
              /\ IF ret.err # "nil"
                   THEN /\ stderr' = Append(stderr, [text |-> "Warning: failed to export %s/%s: %v",
                                                     arg |-> <<resource.Name, GetName(item), ret.err>>])
                        /\ UNCHANGED stdout
                   ELSE /\ stdout' = Append(stdout,
                                            formatOutputMessage(FALSE, namespace, resource.Name,
                                                                GetName(item)))
                        /\ UNCHANGED stderr
  /\ AdvanceItem
  /\ UNCHANGED <<sortedDirect, cleanVars, heapVars, pathVars, helmVars, restVars, lastExport,
                 firstRun>>
  /\ stages' = Entered(stages, "write")
  /\ UNCHANGED <<flags, apiResourceLists, objects, discovered, selectedResources, nsIdx,
                 listCalls, retErr>>

\* PrintSummary without the test of the dry-run flag.
PrintSummary_AlsoInDryRun ==
  /\ pc = "loop"
  /\ nsIdx > Len(flags.exportNamespaces)
  /\ stdout' = Append(stdout, Summary(exp))
  /\ Return("nil")
  /\ UNCHANGED <<sortedDirect, cleanVars, heapVars, pathVars, helmVars, restVars, lastExport,
                 firstRun>>
  /\ UNCHANGED <<stages, flags, apiResourceLists, objects, discovered, selectedResources, nsIdx,
                 resIdx, items, itemIdx, exp, fs, stderr, listCalls, exportCalls, faults>>

\* runExport, lines 165-170
PrintSummary ==
  /\ pc = "loop"
  /\ nsIdx > Len(flags.exportNamespaces)
  /\ stdout' = IF ~flags.exportDryRun THEN Append(stdout, Summary(exp)) ELSE stdout
  /\ Return("nil")
  /\ UNCHANGED <<sortedDirect, cleanVars, heapVars, pathVars, helmVars, restVars, lastExport,
                 firstRun>>
  /\ UNCHANGED <<stages, flags, apiResourceLists, objects, discovered, selectedResources, nsIdx,
                 resIdx, items, itemIdx, exp, fs, stderr, listCalls, exportCalls, faults>>

Next ==
  \/ ValidateFlags
  \/ LoadKubeConfig
  \/ NewClient
  \/ Discover
  \/ SelectResources
  \/ NextNamespace
  \/ SkipResource
  \/ ListResources
  \/ DryRunItem
  \/ ExportItem
  \/ PrintSummary

Spec == Init /\ [][Next]_vars

----------------------------------------------------------------------------
(* cmd: the export command run a second time *)

\* The command is started again with the flags of the run that returned nil,
\* against the same cluster and the directory tree that run left: a new
\* process, with the package variables and the streams as at the start.
RunAgain ==
  /\ pc = "done"
  /\ retErr = "nil"
  /\ ~firstRun.called
  /\ firstRun' = [called |-> TRUE, fs |-> fs, stdout |-> stdout, stderr |-> stderr,
                  listCalls |-> listCalls]
  /\ pc' = "validate"
  /\ retErr' = "none"
  /\ discovered' = NotCalled
  /\ selectedResources' = <<>>
  /\ nsIdx' = 1
  /\ resIdx' = 1
  /\ items' = <<>>
  /\ itemIdx' = 1
  /\ exp' = NewExporter(<<>>)
  /\ stdout' = <<>>
  /\ stderr' = <<>>
  /\ listCalls' = <<>>
  /\ exportCalls' = 0
  /\ stages' = <<>>
  /\ UNCHANGED <<flags, apiResourceLists, objects, fs, faults>>
  /\ UNCHANGED <<sortedDirect, cleanVars, heapVars, pathVars, helmVars, restVars, lastExport>>

\* The resource names asked for in the runs that are repeated.
RerunRequestedChoices == {<<>>, <<s_pods>>, <<s_nodes, s_pods>>, <<s_pods, s_pods>>}

\* A non-dry run into one directory.
InitRerun ==
  /\ Init
  /\ ~flags.exportDryRun
  /\ flags.exportOutputDir = s_out
  /\ flags.exportResources \in RerunRequestedChoices

\* The steps of runExport that a non-dry run takes, and the second start.
NextRerun ==
  \/ ValidateFlags
  \/ LoadKubeConfig
  \/ NewClient
  \/ Discover
  \/ SelectResources
  \/ NextNamespace
  \/ SkipResource
  \/ ListResources
  \/ ExportItem
  \/ PrintSummary
  \/ RunAgain

SpecRerun == InitRerun /\ [][NextRerun]_vars

----------------------------------------------------------------------------
(* cmd: the helm-values-export command *)

MaxReleases == 2

s_prod == <<"p", "r", "o", "d">>
s_values_yaml == <<"-", "v", "a", "l", "u", "e", "s", ".", "y", "a", "m", "l">>

\* The releases a cluster may hold, in the order helm list prints them.
ReleaseUniverse ==
  << [Name |-> s_web, Namespace |-> s_default, Chart |-> "web-1.0.0"],
     [Name |-> s_a, Namespace |-> s_default, Chart |-> "a-2.1.0"],
     [Name |-> s_web, Namespace |-> s_kube_system, Chart |-> "web-0.9.0"] >>

\* helm.ListReleasesWithContext, when helm succeeds: the releases of the
\* namespace.
RECURSIVE ListReleases(_, _, _)
ListReleases(rels, k, namespace) ==
  IF k > Len(ReleaseUniverse) THEN <<>>
  ELSE (IF k \in rels /\ ReleaseUniverse[k].Namespace = namespace
          THEN <<ReleaseUniverse[k]>> ELSE <<>>)
         \o ListReleases(rels, k + 1, namespace)

\* helm.GetValuesWithContext, when helm succeeds: the values document.
GetValues(releaseName, namespace) == [release |-> releaseName, namespace |-> namespace]

\* runHelmValuesExport, lines 124-127
requestedMap(requested) == {requested[i] : i \in DOMAIN requested}

\* A filter that walks the requested names instead of the releases.
RECURSIVE FilterReleases_RequestOrder(_, _)
FilterReleases_RequestOrder(releases, requested) ==
  IF requested = <<>> THEN <<>>
  ELSE LET Named(rel) == rel.Name = Head(requested)
       IN  SelectSeq(releases, Named) \o FilterReleases_RequestOrder(releases, Tail(requested))

\* runHelmValuesExport, lines 130-134
RECURSIVE FilterReleases(_, _)
FilterReleases(releases, requested) ==
  IF releases = <<>> THEN <<>>
  ELSE (IF Head(releases).Name \in requestedMap(requested) THEN <<Head(releases)>> ELSE <<>>)
         \o FilterReleases(Tail(releases), requested)

\* The directory of a namespace without the context above it.
HelmValuesDir_NoContext(outputDir, ctx, namespace) == Join(<<outputDir, namespace>>)

\* runHelmValuesExport, lines 164 and 170
HelmValuesDir(outputDir, ctx, namespace) == Join(<<outputDir, ctx, namespace>>)
HelmValuesFile(nsDir, releaseName) == Join(<<nsDir, releaseName \o s_values_yaml>>)

\* How helm and the file system answer the export of one release.
HelmOutcomes == {"ok", "get values fails", "mkdir fails", "open fails", "write fails"}

HelmReleaseChoices ==
  {<<>>, <<s_web>>, <<s_a, s_web>>, <<s_web, s_missing>>, <<s_missing>>,
   <<s_a, s_missing, s_web>>}

HelmNamespaceChoices ==
  {<<s_default>>, <<s_default, s_kube_system>>, <<s_kube_system, s_default>>,
   <<s_default, s_default>>}

\* The variables of the manifest export, which the Helm command leaves alone.
manifestVars ==
  <<discVars, cleanVars, heapVars, pathVars, exp, exportCalls, lastExport, flags, objects,
    selectedResources, resIdx, items, listCalls, firstRun, restVars>>

InitHelm ==
  /\ helmFlags \in [helmExportDryRun : BOOLEAN, helmExportOutputDir : {s_out},
                    helmExportCtx : {s_prod}, helmExportNamespaces : HelmNamespaceChoices,
                    helmExportReleases : HelmReleaseChoices, helmExportAll : BOOLEAN]
  /\ helmInstalled \in BOOLEAN
  /\ helmReleases \in {rs \in SUBSET DOMAIN ReleaseUniverse : Cardinality(rs) <= MaxReleases}
  /\ releasesToExport = <<>>
  /\ helmCalls = <<>>
  /\ exportedCount = 0
  /\ pc = "helmPreRun"
  /\ nsIdx = 1
  /\ itemIdx = 1
  /\ stdout = <<>>
  /\ stderr = <<>>
  /\ fs = EmptyFS
  /\ faults = 0
  /\ retErr = "none"
  /\ stages = <<>>
  /\ flags = [exportDryRun |-> FALSE, exportOutputDir |-> <<>>, exportNamespaces |-> <<>>,
              exportResources |-> <<>>, exportAllRes |-> FALSE]
  /\ objects = {}
  /\ selectedResources = <<>>
  /\ resIdx = 1
  /\ items = <<>>
  /\ listCalls = <<>>
  /\ firstRun = NotCalled
  /\ exp = NewExporter(<<>>)
  /\ exportCalls = 0
  /\ lastExport = NotCalled
  /\ IdleDiscover /\ IdleClean /\ IdleHeap /\ IdlePath
  /\ IdleParse /\ IdlePrompt /\ IdleGo /\ IdleInteractive

\* helmValuesExportCmd.PreRunE, lines 37-42; RunE runs only when it returns nil.
HelmPreRunE ==
  /\ pc = "helmPreRun"
  /\ stages' = Entered(stages, "helm installed")
  /\ IF ~helmInstalled
       THEN Return("helm CLI is not installed or not in PATH")
       ELSE pc' = "helmValidate" /\ UNCHANGED retErr
  /\ UNCHANGED <<manifestVars, helmVars, nsIdx, itemIdx, stdout, stderr, fs, faults>>

\* runHelmValuesExport, lines 62-65
HelmValidateFlags ==
  /\ pc = "helmValidate"
  /\ stages' = Entered(stages, "validate flags")
  /\ IF ~helmFlags.helmExportAll /\ Len(helmFlags.helmExportReleases) = 0
       THEN Return("must specify either --releases or --all")
       ELSE pc' = "helmLoadKubeConfig" /\ UNCHANGED retErr
  /\ UNCHANGED <<manifestVars, helmVars, nsIdx, itemIdx, stdout, stderr, fs, faults>>

\* runHelmValuesExport, lines 67-78
HelmLoadKubeConfig ==
  /\ pc = "helmLoadKubeConfig"
  /\ stages' = Entered(stages, "load kubeconfig")
  /\ \/ pc' = "helmNewClient" /\ UNCHANGED <<retErr, faults>>
     \/ faults < MaxFaults /\ faults' = faults + 1 /\ Return("failed to load kubeconfig")
  /\ UNCHANGED <<manifestVars, helmVars, nsIdx, itemIdx, stdout, stderr, fs>>

\* runHelmValuesExport, lines 80-92
HelmNewClient ==
  /\ pc = "helmNewClient"
  /\ stages' = Entered(stages, "create client")
  /\ \/ /\ pc' = "helmLoop"
        /\ stdout' = stdout \o <<[text |-> "Using context: "],
                                 [text |-> "Exporting from namespace(s)",
                                  arg |-> helmFlags.helmExportNamespaces]>>
        /\ UNCHANGED <<retErr, faults>>
     \/ /\ faults < MaxFaults
        /\ faults' = faults + 1
        /\ Return("failed to create client for context")
        /\ UNCHANGED stdout
  /\ UNCHANGED <<manifestVars, helmVars, nsIdx, itemIdx, stderr, fs>>

\* The namespace loop left at the first failed release listing.
HelmListReleases_FailureBreaks ==
  /\ pc = "helmLoop"
  /\ nsIdx <= Len(helmFlags.helmExportNamespaces)
  /\ stages' = Entered(stages, "helm list")
  /\ LET namespace == helmFlags.helmExportNamespaces[nsIdx]
         header == [text |-> "--- Namespace: %s ---", arg |-> namespace]
         call(err, rels) == [op |-> "list", namespace |-> namespace, name |-> <<>>,
                             err |-> err, releases |-> rels]
         skip == /\ nsIdx' = nsIdx + 1
                 /\ UNCHANGED <<pc, releasesToExport, itemIdx>>
     IN  \/ /\ faults < MaxFaults
            /\ faults' = faults + 1
            /\ helmCalls' = Append(helmCalls, call(TRUE, <<>>))
            /\ stdout' = Append(stdout, header)
            /\ stderr' = Append(stderr, [text |-> "Warning: failed to list Helm releases in %s: %v",
                                         arg |-> namespace])
            /\ nsIdx' = Len(helmFlags.helmExportNamespaces) + 1
            /\ UNCHANGED <<pc, releasesToExport, itemIdx>>
         \/ \E releases \in {ListReleases(helmReleases, 1, namespace)} :
              /\ helmCalls' = Append(helmCalls, call(FALSE, releases))
              /\ UNCHANGED <<faults, stderr>>
              /\ IF Len(releases) = 0
                   THEN /\ stdout' = stdout \o
                             <<header, [text |-> "No Helm releases found in namespace %s",
                                        arg |-> namespace]>>
                        /\ skip
                 ELSE IF helmFlags.helmExportAll
                   THEN /\ stdout' = stdout \o
                             <<header, [text |-> "Exporting all %d Helm release(s)",
                                        n |-> Len(releases)]>>
                        /\ releasesToExport' = releases
                        /\ pc' = "helmReleases"
                        /\ itemIdx' = 1
                        /\ UNCHANGED nsIdx
                 ELSE \E filtered \in {FilterReleases(releases, helmFlags.helmExportReleases)} :
                        IF Len(filtered) = 0
                          THEN /\ stdout' = stdout \o
                                    <<header,
                                      [text |-> "None of the requested releases found in namespace %s",
                                       arg |-> namespace]>>
                               /\ skip
                          ELSE /\ stdout' = stdout \o
                                    <<header, [text |-> "Exporting %d Helm release(s): %v",
                                               n |-> Len(filtered),
                                               arg |-> helmFlags.helmExportReleases]>>
                               /\ releasesToExport' = filtered
                               /\ pc' = "helmReleases"
                               /\ itemIdx' = 1
                               /\ UNCHANGED nsIdx
  /\ UNCHANGED <<manifestVars, helmFlags, helmInstalled, helmReleases, exportedCount, fs, retErr>>

\* runHelmValuesExport, lines 97-142: the next namespace, its release list
\* and the releases to export of it.
HelmListReleases ==
  /\ pc = "helmLoop"
  /\ nsIdx <= Len(helmFlags.helmExportNamespaces)
  /\ stages' = Entered(stages, "helm list")
  /\ LET namespace == helmFlags.helmExportNamespaces[nsIdx]
         header == [text |-> "--- Namespace: %s ---", arg |-> namespace]
         call(err, rels) == [op |-> "list", namespace |-> namespace, name |-> <<>>,
                             err |-> err, releases |-> rels]
         skip == /\ nsIdx' = nsIdx + 1
                 /\ UNCHANGED <<pc, releasesToExport, itemIdx>>
     IN  \/ /\ faults < MaxFaults
            /\ faults' = faults + 1
            /\ helmCalls' = Append(helmCalls, call(TRUE, <<>>))
            /\ stdout' = Append(stdout, header)
            /\ stderr' = Append(stderr, [text |-> "Warning: failed to list Helm releases in %s: %v",
                                         arg |-> namespace])
            /\ skip
         \/ \E releases \in {ListReleases(helmReleases, 1, namespace)} :
              /\ helmCalls' = Append(helmCalls, call(FALSE, releases))
              /\ UNCHANGED <<faults, stderr>>
              /\ IF Len(releases) = 0
                   THEN /\ stdout' = stdout \o
                             <<header, [text |-> "No Helm releases found in namespace %s",
                                        arg |-> namespace]>>
                        /\ skip
                 ELSE IF helmFlags.helmExportAll
                   THEN /\ stdout' = stdout \o
                             <<header, [text |-> "Exporting all %d Helm release(s)",
                                        n |-> Len(releases)]>>
                        /\ releasesToExport' = releases
                        /\ pc' = "helmReleases"
                        /\ itemIdx' = 1
                        /\ UNCHANGED nsIdx
                 ELSE \E filtered \in {FilterReleases(releases, helmFlags.helmExportReleases)} :
                        IF Len(filtered) = 0
                          THEN /\ stdout' = stdout \o
                                    <<header,
                                      [text |-> "None of the requested releases found in namespace %s",
                                       arg |-> namespace]>>
                               /\ skip
                          ELSE /\ stdout' = stdout \o
                                    <<header, [text |-> "Exporting %d Helm release(s): %v",
                                               n |-> Len(filtered),
                                               arg |-> helmFlags.helmExportReleases]>>
                               /\ releasesToExport' = filtered
                               /\ pc' = "helmReleases"
                               /\ itemIdx' = 1
                               /\ UNCHANGED nsIdx
  /\ UNCHANGED <<manifestVars, helmFlags, helmInstalled, helmReleases, exportedCount, fs, retErr>>

\* After the release at itemIdx: the next release, or the next namespace.
HelmAdvance ==
  IF itemIdx = Len(releasesToExport)
    THEN pc' = "helmLoop" /\ nsIdx' = nsIdx + 1 /\ releasesToExport' = <<>> /\ itemIdx' = 1
    ELSE itemIdx' = itemIdx + 1 /\ UNCHANGED <<pc, nsIdx, releasesToExport>>

\* runHelmValuesExport, lines 146-149
HelmDryRunRelease ==
  /\ pc = "helmReleases"
  /\ helmFlags.helmExportDryRun
  /\ stdout' = Append(stdout, [text |-> "[DRY-RUN] Would export: %s/%s (%s)",
                               arg |-> <<helmFlags.helmExportNamespaces[nsIdx],
                                         releasesToExport[itemIdx].Name,
                                         releasesToExport[itemIdx].Chart>>])
  /\ HelmAdvance
  /\ UNCHANGED <<manifestVars, helmFlags, helmInstalled, helmReleases, helmCalls,
                 exportedCount, stderr, fs, faults, retErr, stages>>

\* runHelmValuesExport, lines 151-177: the values of one release are fetched
\* and written; the first failure is reported and the release is left.
HelmExportRelease ==
  /\ pc = "helmReleases"
  /\ ~helmFlags.helmExportDryRun
  /\ \E outcome \in HelmOutcomes :
       LET namespace == helmFlags.helmExportNamespaces[nsIdx]
           release == releasesToExport[itemIdx]
           values == GetValues(release.Name, namespace)
           nsDir == HelmValuesDir(helmFlags.helmExportOutputDir, helmFlags.helmExportCtx,
                                  namespace)
           filename == HelmValuesFile(nsDir, release.Name)
           made == [fs EXCEPT !.dirs = @ \cup Ancestors(nsDir)]
           put(data) == [made EXCEPT !.files =
                           [p \in (DOMAIN @) \cup {filename} |->
                              IF p = filename THEN data ELSE @[p]]]
           warn(text, arg) == stderr' = Append(stderr, [text |-> text, arg |-> arg])
       IN  /\ outcome # "ok" => faults < MaxFaults
           /\ faults' = IF outcome = "ok" THEN faults ELSE faults + 1
           /\ helmCalls' = Append(helmCalls,
                                  [op |-> "get values", namespace |-> namespace,
                                   name |-> release.Name,
                                   err |-> outcome = "get values fails", releases |-> <<>>])
           /\ stages' = IF outcome = "get values fails"
                          THEN Entered(stages, "helm get values")
                          ELSE Entered(Entered(stages, "helm get values"), "write")
           /\ CASE outcome = "get values fails" ->
                     /\ warn("Warning: failed to get values for %s: %v", release.Name)
                     /\ UNCHANGED <<fs, stdout, exportedCount>>
                [] outcome = "mkdir fails" ->
                     /\ warn("Warning: failed to create directory %s: %v", nsDir)
                     /\ UNCHANGED <<fs, stdout, exportedCount>>
                [] outcome = "open fails" ->
                     /\ warn("Warning: failed to write %s: %v", filename)
                     /\ fs' = made
                     /\ UNCHANGED <<stdout, exportedCount>>
                [] outcome = "write fails" ->
                     /\ warn("Warning: failed to write %s: %v", filename)
                     /\ fs' = put(TruncatedData)
                     /\ UNCHANGED <<stdout, exportedCount>>
                [] OTHER ->
                     /\ fs' = put([yaml |-> values])
                     /\ stdout' = Append(stdout, [text |-> "Exported: %s/%s -> %s",
                                                  arg |-> <<namespace, release.Name, filename>>])
                     /\ exportedCount' = exportedCount + 1
                     /\ UNCHANGED stderr
  /\ HelmAdvance
  /\ UNCHANGED <<manifestVars, helmFlags, helmInstalled, helmReleases, retErr>>

\* The summary printed in a preview as well.
HelmPrintSummary_AlsoInDryRun ==
  /\ pc = "helmLoop"
  /\ nsIdx > Len(helmFlags.helmExportNamespaces)
  /\ stdout' = Append(stdout, [text |-> "Exported %d Helm release value(s) to %s",
                               count |-> exportedCount,
                               dir |-> helmFlags.helmExportOutputDir])
  /\ Return("nil")
  /\ UNCHANGED <<manifestVars, helmVars, nsIdx, itemIdx, stderr, fs, faults, stages>>

\* runHelmValuesExport, lines 181-185
HelmPrintSummary ==
  /\ pc = "helmLoop"
  /\ nsIdx > Len(helmFlags.helmExportNamespaces)
  /\ stdout' = IF ~helmFlags.helmExportDryRun
                 THEN Append(stdout, [text |-> "Exported %d Helm release value(s) to %s",
                                      count |-> exportedCount,
                                      dir |-> helmFlags.helmExportOutputDir])
                 ELSE stdout
  /\ Return("nil")
  /\ UNCHANGED <<manifestVars, helmVars, nsIdx, itemIdx, stderr, fs, faults, stages>>

NextHelm ==
  \/ HelmPreRunE
  \/ HelmValidateFlags
  \/ HelmLoadKubeConfig
  \/ HelmNewClient
  \/ HelmListReleases
  \/ HelmDryRunRelease
  \/ HelmExportRelease
  \/ HelmPrintSummary

SpecHelm == InitHelm /\ [][NextHelm]_vars

\* rootCmd.Execute: one of the two non-interactive commands runs.
SpecExecute == (Init \/ InitHelm) /\ [][Next \/ NextHelm]_vars

----------------------------------------------------------------------------
(* pkg/helm: ListReleasesWithContext reading the table helm list prints *)

MaxFields == 10
MaxLines == 2

NEWLINE == "\n"
SPACE == " "
TAB == "\t"

\* unicode.IsSpace for the characters of the model.
IsSpace(c) == c \in {SPACE, TAB, NEWLINE}

\* The k-th smallest number of a set of numbers.
Nth(numbers, k) == CHOOSE n \in numbers : Cardinality({m \in numbers : m < n}) = k - 1

\* strings.Split(output, "\n"): the pieces between the newlines, the last
\* one empty when the text ends in a newline.
SplitLines(text) ==
  LET breaks == {0, Len(text) + 1} \cup {i \in DOMAIN text : text[i] = NEWLINE}
  IN  [k \in 1..(Cardinality(breaks) - 1) |->
         SubSeq(text, Nth(breaks, k) + 1, Nth(breaks, k + 1) - 1)]

\* strings.TrimSpace(line) == ""
TrimsToEmpty(line) == \A i \in DOMAIN line : IsSpace(line[i])

\* strings.Fields: the maximal runs of characters that are not white space.
Fields(line) ==
  LET starts == {i \in DOMAIN line :
                   ~IsSpace(line[i]) /\ (i = 1 \/ IsSpace(line[i - 1]))}
      ends == {i \in DOMAIN line :
                 ~IsSpace(line[i]) /\ (i = Len(line) \/ IsSpace(line[i + 1]))}
  IN  [k \in 1..Cardinality(starts) |-> SubSeq(line, Nth(starts, k), Nth(ends, k))]

\* The text of the k-th column of a line of the table.
ColumnText(k) == <<SubSeq(<<"a", "b", "c", "d", "e", "f", "g", "h", "i", "j", "k", "l">>, k, k)[1],
                   "x">>

\* A line of n columns, separated by single spaces or padded as helm pads.
RECURSIVE TableLine(_, _, _)
TableLine(k, n, padded) ==
  IF k > n THEN (IF padded THEN <<SPACE>> ELSE <<>>)
  ELSE (IF padded THEN <<SPACE, TAB>> ELSE IF k > 1 THEN <<SPACE>> ELSE <<>>)
         \o ColumnText(k) \o TableLine(k + 1, n, padded)

TableLines == {TableLine(1, n, padded) : n \in 0..MaxFields, padded \in BOOLEAN}

HeaderLine == <<"N", "A", "M", "E", TAB, "N", "A", "M", "E", "S", "P", "A", "C", "E">>

RECURSIVE JoinLines(_)
JoinLines(rows) ==
  IF rows = <<>> THEN <<>> ELSE Head(rows) \o <<NEWLINE>> \o JoinLines(Tail(rows))

\* What helm list prints: nothing, or a header and some lines.
HelmOutputs ==
  {<<>>} \cup
  UNION {{JoinLines(<<HeaderLine>> \o rows) : rows \in [1..n -> TableLines]} : n \in 0..MaxLines}

InitParse ==
  /\ helmOutput \in HelmOutputs
  /\ lineIdx = 1
  /\ parsedReleases = <<>>
  /\ parsePc = "lines"
  /\ IdlePrompt /\ IdleGo /\ IdleInteractive
  /\ IdleDiscover /\ IdleClean /\ IdleHeap /\ IdlePath /\ IdleExporter /\ IdleRun /\ IdleHelm

\* ListReleasesWithContext, lines 229-232: the header and the empty lines.
SkipLine ==
  /\ parsePc = "lines"
  /\ lineIdx <= Len(SplitLines(helmOutput))
  /\ lineIdx = 1 \/ TrimsToEmpty(SplitLines(helmOutput)[lineIdx])
  /\ lineIdx' = lineIdx + 1
  /\ UNCHANGED <<helmOutput, parsedReleases, parsePc>>
  /\ UNCHANGED <<discVars, cleanVars, heapVars, pathVars, exporterVars, runVars, helmVars,
                 promptVars, goVars, interVars>>

\* ListReleasesWithContext, lines 234-243: a line of fewer than 5 fields is
\* left out; one of 5 or more gives a Release from fields 0, 1, 2, 7 and 8,
\* and the index expressions fields[7] and fields[8] panic when the line has
\* no such field.
ParseLine ==
  /\ parsePc = "lines"
  /\ lineIdx <= Len(SplitLines(helmOutput))
  /\ ~(lineIdx = 1 \/ TrimsToEmpty(SplitLines(helmOutput)[lineIdx]))
  /\ \E fields \in {Fields(SplitLines(helmOutput)[lineIdx])} :
       IF Len(fields) >= 5
         THEN IF Len(fields) < 9
                THEN parsePc' = "panic" /\ UNCHANGED <<lineIdx, parsedReleases>>
                ELSE /\ parsedReleases' =
                          Append(parsedReleases,
                                 [Name |-> fields[1], Namespace |-> fields[2],
                                  Revision |-> fields[3], Status |-> fields[8],
                                  Chart |-> fields[9]])
                     /\ lineIdx' = lineIdx + 1
                     /\ UNCHANGED parsePc
         ELSE lineIdx' = lineIdx + 1 /\ UNCHANGED <<parsedReleases, parsePc>>
  /\ UNCHANGED helmOutput
  /\ UNCHANGED <<discVars, cleanVars, heapVars, pathVars, exporterVars, runVars, helmVars,
                 promptVars, goVars, interVars>>

\* ListReleasesWithContext, line 247
ParseReturn ==
  /\ parsePc = "lines"
  /\ lineIdx > Len(SplitLines(helmOutput))
  /\ parsePc' = "returned"
  /\ UNCHANGED <<helmOutput, lineIdx, parsedReleases>>
  /\ UNCHANGED <<discVars, cleanVars, heapVars, pathVars, exporterVars, runVars, helmVars,
                 promptVars, goVars, interVars>>

NextParse == SkipLine \/ ParseLine \/ ParseReturn

SpecParse == InitParse /\ [][NextParse]_vars

----------------------------------------------------------------------------
(* pkg/selector: the multi-select prompts *)

MaxOptions == 2

s_dev == <<"d", "e", "v">>
s_current_suffix == <<" ", "(", "c", "u", "r", "r", "e", "n", "t", ")">>

\* strings.TrimSuffix
TrimSuffix(str, suffix) ==
  IF Len(str) >= Len(suffix) /\ SubSeq(str, Len(str) - Len(suffix) + 1, Len(str)) = suffix
    THEN SubSeq(str, 1, Len(str) - Len(suffix))
    ELSE str

\* fmt.Sprintf("%s (current)", ctx) for the current context
FormatContextOptions(contexts, currentContext) ==
  [i \in DOMAIN contexts |->
     IF contexts[i] = currentContext THEN contexts[i] \o s_current_suffix ELSE contexts[i]]

ParseSelectedContext(selected) == TrimSuffix(selected, s_current_suffix)

\* ResourceInfo.String: "name (version/kind)" or "name (group/version/kind)"
ResourceString(r) ==
  r.Name \o <<" ", "(">>
    \o (IF r.Group = <<>> THEN <<>> ELSE r.Group \o <<SLASH>>)
    \o r.Version \o <<SLASH, r.Kind, ")">>

FormatResourceOptions(resources) == [i \in DOMAIN resources |-> ResourceString(resources[i])]

\* ParseSelectedResource: the first resource whose string is the option, or nil.
ParseSelectedResource(selected, resources) ==
  LET matches == {i \in DOMAIN resources : ResourceString(resources[i]) = selected}
  IN  IF matches = {} THEN [nil |-> TRUE]
      ELSE [nil |-> FALSE, res |-> resources[Nth(matches, 1)]]

\* The options at the given positions, in the order of the options.
Picked(options, positions) ==
  [k \in 1..Cardinality(positions) |-> options[Nth(positions, k)]]

\* What survey.AskOne does with a MultiSelect: it fails, or it stores the
\* options the user marked, none of them included.
AskerAnswers(options) ==
  {[err |-> TRUE, selected |-> <<>>]}
    \cup {[err |-> FALSE, selected |-> Picked(options, positions)] :
            positions \in SUBSET DOMAIN options}

promptContextSelectionWithAsker(answer, contexts, currentContext) ==
  IF Len(contexts) = 0 THEN [result |-> <<>>, err |-> "no contexts available"]
  ELSE IF answer.err THEN [result |-> <<>>, err |-> "failed to select contexts"]
  ELSE [result |-> [i \in DOMAIN answer.selected |-> ParseSelectedContext(answer.selected[i])],
        err |-> "nil"]

promptNamespaceSelectionWithAsker(answer, namespaces) ==
  IF Len(namespaces) = 0 THEN [result |-> <<>>, err |-> "no namespaces available"]
  ELSE IF answer.err THEN [result |-> <<>>, err |-> "failed to select namespaces"]
  ELSE IF Len(answer.selected) = 0 THEN [result |-> <<>>, err |-> "no namespaces selected"]
  ELSE [result |-> answer.selected, err |-> "nil"]

\* The loop of promptResourceSelectionWithAsker: the options that name a resource.
RECURSIVE ParsedResources(_, _)
ParsedResources(selected, resources) ==
  IF selected = <<>> THEN <<>>
  ELSE LET res == ParseSelectedResource(Head(selected), resources)
       IN  (IF res.nil THEN <<>> ELSE <<res.res>>) \o ParsedResources(Tail(selected), resources)

promptResourceSelectionWithAsker(answer, resources) ==
  IF Len(resources) = 0 THEN [result |-> <<>>, err |-> "no resources available"]
  ELSE IF answer.err THEN [result |-> <<>>, err |-> "failed to select resources"]
  ELSE IF Len(answer.selected) = 0 THEN [result |-> <<>>, err |-> "no resources selected"]
  ELSE [result |-> ParsedResources(answer.selected, resources), err |-> "nil"]

\* Lists of at most MaxOptions elements of a pool.
ListsOf(pool) == UNION {[1..n -> pool] : n \in 0..MaxOptions}

ContextNamePool == {s_dev, s_prod, s_prod \o s_current_suffix}

PromptResourcePool ==
  {ResourceInfo(s_pods, <<>>, s_v1, "Pod", TRUE),
   ResourceInfo(s_pods, s_example_com, s_v1, "Pod", TRUE),
   ResourceInfo(s_nodes, <<>>, s_v1, "Node", FALSE)}

InitPrompt ==
  /\ \/ \E contexts \in ListsOf(ContextNamePool) :
          \E currentContext \in ContextNamePool \cup {<<>>} :
            \E answer \in AskerAnswers(FormatContextOptions(contexts, currentContext)) :
              promptCall = [called |-> TRUE, fn |-> "PromptContextSelection",
                            options |-> contexts, currentContext |-> currentContext,
                            answer |-> answer]
     \/ \E namespaces \in ListsOf({s_default, s_kube_system}) :
          \E answer \in AskerAnswers(namespaces) :
            promptCall = [called |-> TRUE, fn |-> "PromptNamespaceSelection",
                          options |-> namespaces, currentContext |-> <<>>,
                          answer |-> answer]
     \/ \E resources \in ListsOf(PromptResourcePool) :
          \E answer \in AskerAnswers(FormatResourceOptions(resources)) :
            promptCall = [called |-> TRUE, fn |-> "PromptResourceSelection",
                          options |-> resources, currentContext |-> <<>>,
                          answer |-> answer]
  /\ promptResult = NotCalled
  /\ IdleParse /\ IdleGo /\ IdleInteractive
  /\ IdleDiscover /\ IdleClean /\ IdleHeap /\ IdlePath /\ IdleExporter /\ IdleRun /\ IdleHelm

Prompted(ret, shown) ==
  /\ promptResult' = [called |-> TRUE, result |-> ret.result, err |-> ret.err,
                      shown |-> shown]
  /\ UNCHANGED promptCall
  /\ UNCHANGED <<discVars, cleanVars, heapVars, pathVars, exporterVars, runVars, helmVars,
                 parseVars, goVars, interVars>>

CallPromptContextSelection ==
  /\ ~promptResult.called
  /\ promptCall.fn = "PromptContextSelection"
  /\ Prompted(promptContextSelectionWithAsker(promptCall.answer, promptCall.options,
                                              promptCall.currentContext),
              FormatContextOptions(promptCall.options, promptCall.currentContext))

CallPromptNamespaceSelection ==
  /\ ~promptResult.called
  /\ promptCall.fn = "PromptNamespaceSelection"
  /\ Prompted(promptNamespaceSelectionWithAsker(promptCall.answer, promptCall.options),
              promptCall.options)

CallPromptResourceSelection ==
  /\ ~promptResult.called
  /\ promptCall.fn = "PromptResourceSelection"
  /\ Prompted(promptResourceSelectionWithAsker(promptCall.answer, promptCall.options),
              FormatResourceOptions(promptCall.options))

NextPrompt ==
  \/ CallPromptContextSelection
  \/ CallPromptNamespaceSelection
  \/ CallPromptResourceSelection

SpecPrompt == InitPrompt /\ [][NextPrompt]_vars

----------------------------------------------------------------------------
(* pkg/exporter: ExportResource called by several goroutines on one Exporter *)

MaxGoroutines == 2

Goroutines == 1..MaxGoroutines

\* The objects the goroutines export.
GoObjects == {ObjectDocument(ClusterUniverse[1]), ObjectDocument(ClusterUniverse[2])}

\* sync.Mutex.Lock returns when no goroutine holds the mutex (0: unlocked).
CanLock_Always(m) == TRUE

CanLock(m) == m = 0

InitGo ==
  /\ gpc = [g \in Goroutines |-> "write"]
  /\ gtmp = [g \in Goroutines |-> 0]
  /\ gret = [g \in Goroutines |-> "none"]
  /\ mu = 0
  /\ exp = NewExporter(s_out)
  /\ fs = EmptyFS
  /\ exportCalls = 0
  /\ lastExport = NotCalled
  /\ IdleParse /\ IdlePrompt /\ IdleInteractive
  /\ IdleDiscover /\ IdleClean /\ IdleHeap /\ IdlePath /\ IdleRun /\ IdleHelm

GoUnchanged ==
  UNCHANGED <<discVars, cleanVars, heapVars, pathVars, runVars, helmVars, parseVars,
              promptVars, interVars, lastExport>>

\* ExportResource, lines 81-96: clean, name, path and write; an error returns.
GoWrite(g) ==
  /\ gpc[g] = "write"
  /\ \E obj \in GoObjects, outcome \in WriteOutcomes :
       LET cleaned == CleanManifest(obj)
           name == GetName(cleaned)
           filePath == GenerateFilePath(exp.BaseDir, s_default, s_pods, name)
           w == WriteManifest(fs, cleaned, filePath, outcome)
       IN  IF name = <<>>
             THEN /\ gret' = [gret EXCEPT ![g] = "resource has no name"]
                  /\ gpc' = [gpc EXCEPT ![g] = "returned"]
                  /\ UNCHANGED fs
             ELSE /\ fs' = w.fs
                  /\ IF w.err # "nil"
                       THEN /\ gret' = [gret EXCEPT ![g] = w.err]
                            /\ gpc' = [gpc EXCEPT ![g] = "returned"]
                       ELSE /\ gpc' = [gpc EXCEPT ![g] = "lock"]
                            /\ UNCHANGED gret
  /\ exportCalls' = exportCalls + 1
  /\ UNCHANGED <<exp, gtmp, mu>>
  /\ GoUnchanged

\* ExportResource, line 98: e.mu.Lock()
GoLock(g) ==
  /\ gpc[g] = "lock"
  /\ CanLock(mu)
  /\ mu' = g
  /\ gpc' = [gpc EXCEPT ![g] = "load"]
  /\ UNCHANGED <<exp, fs, exportCalls, gtmp, gret>>
  /\ GoUnchanged

\* ExportResource, line 99: e.ExportedCount++ reads the counter ...
GoLoad(g) ==
  /\ gpc[g] = "load"
  /\ gtmp' = [gtmp EXCEPT ![g] = exp.ExportedCount]
  /\ gpc' = [gpc EXCEPT ![g] = "store"]
  /\ UNCHANGED <<exp, fs, exportCalls, gret, mu>>
  /\ GoUnchanged

\* ... and writes it back, one higher.
GoStore(g) ==
  /\ gpc[g] = "store"
  /\ exp' = [exp EXCEPT !.ExportedCount = gtmp[g] + 1]
  /\ gpc' = [gpc EXCEPT ![g] = "unlock"]
  /\ UNCHANGED <<fs, exportCalls, gtmp, gret, mu>>
  /\ GoUnchanged

\* ExportResource, lines 100-102: e.mu.Unlock() and return nil
GoUnlock(g) ==
  /\ gpc[g] = "unlock"
  /\ mu' = 0
  /\ gret' = [gret EXCEPT ![g] = "nil"]
  /\ gpc' = [gpc EXCEPT ![g] = "returned"]
  /\ UNCHANGED <<exp, fs, exportCalls, gtmp>>
  /\ GoUnchanged

NextGo ==
  \E g \in Goroutines :
    \/ GoWrite(g)
    \/ GoLock(g)
    \/ GoLoad(g)
    \/ GoStore(g)
    \/ GoUnlock(g)

SpecGo == InitGo /\ [][NextGo]_vars

----------------------------------------------------------------------------
(* cmd: runInteractive *)

\* The kubeconfig: its contexts and the current one.
InterContexts == <<s_dev, s_prod>>
InterCurrentContext == s_dev

\* What GetNamespaces returns for a cluster.
InterNamespaces == <<s_default, s_kube_system>>

\* The objects of the two clusters.
InterClusterChoices ==
  {[c \in {s_dev, s_prod} |-> IF c = s_dev THEN d ELSE p] : d \in {{1}, {1, 2}}, p \in {{}, {1}}}

s_manifests_prefix == <<".", "/", "m", "a", "n", "i", "f", "e", "s", "t", "s", "-">>

\* fmt.Sprintf("./manifests-%s", contextName)
DefaultDir(contextName) == s_manifests_prefix \o contextName

\* What survey.AskOne does with the Input of the directory prompt: it fails,
\* or the user accepts the default.
DirectoryAnswers(defaultDir) ==
  {[err |-> TRUE, directory |-> <<>>], [err |-> FALSE, directory |-> defaultDir]}

promptDirectorySelectionWithAsker(answer, defaultDir) ==
  IF answer.err THEN [result |-> <<>>, err |-> "failed to get directory"]
  ELSE [result |-> answer.directory, err |-> "nil"]

\* The directory asked for even when the output flag is set.
SelectOutputDir_AlwaysPrompts(flagDir, answer, defaultDir) ==
  promptDirectorySelectionWithAsker(answer, defaultDir)

\* runInteractive, lines 294-301: the output flag, or the directory prompt.
SelectOutputDir(flagDir, answer, defaultDir) ==
  IF flagDir = <<>>
    THEN promptDirectorySelectionWithAsker(answer, defaultDir)
    ELSE [result |-> flagDir, err |-> "nil"]

\* The items a list call returns in the cluster of a context: the cluster's
\* own state of each object.
ContextListItems(contextName, objs, resource, namespace) ==
  LET listed == ListItems(objs, 1, resource, namespace)
  IN  [i \in DOMAIN listed |-> [listed[i] EXCEPT !["spec"] = StringValue(contextName)]]

InitInteractive ==
  /\ interFlags \in [interactiveOutputDir : {<<>>, s_out}, interactiveDryRun : BOOLEAN]
  /\ clusters \in InterClusterChoices
  /\ selectedContexts = <<>>
  /\ ctxIdx = 0
  /\ selectedNamespaces = <<>>
  /\ reports = <<>>
  /\ pc = "loadKubeConfig"
  /\ flags = [exportDryRun |-> FALSE, exportOutputDir |-> <<>>, exportNamespaces |-> <<>>,
              exportResources |-> <<>>, exportAllRes |-> FALSE]
  /\ objects = {}
  /\ selectedResources = <<>>
  /\ nsIdx = 1
  /\ resIdx = 1
  /\ items = <<>>
  /\ itemIdx = 1
  /\ stdout = <<>>
  /\ stderr = <<>>
  /\ listCalls = <<>>
  /\ faults = 0
  /\ retErr = "none"
  /\ stages = <<>>
  /\ firstRun = NotCalled
  /\ IdleExporter
  /\ IdleDiscover /\ IdleClean /\ IdleHeap /\ IdlePath /\ IdleHelm
  /\ IdleParse /\ IdlePrompt /\ IdleGo

InterUnchanged ==
  UNCHANGED <<discVars, cleanVars, heapVars, pathVars, helmVars, parseVars, promptVars,
              goVars, flags, objects, firstRun, lastExport, stages, interFlags, clusters>>

\* runInteractive, lines 218-232
InterLoadKubeConfig ==
  /\ pc = "loadKubeConfig"
  /\ \/ pc' = "selectContexts" /\ UNCHANGED <<retErr, faults>>
     \/ faults < MaxFaults /\ faults' = faults + 1 /\ Return("failed to load kubeconfig")
  /\ UNCHANGED <<selectedResources, nsIdx, resIdx, items, itemIdx, stdout, stderr, listCalls,
                 exp, fs, exportCalls, selectedContexts, ctxIdx, selectedNamespaces, reports>>
  /\ InterUnchanged

\* runInteractive, lines 234-239
InterSelectContexts ==
  /\ pc = "selectContexts"
  /\ stdout' = Append(stdout, [text |-> "Selecting cluster context(s)..."])
  /\ \E answer \in AskerAnswers(FormatContextOptions(InterContexts, InterCurrentContext)) :
       \E ret \in {promptContextSelectionWithAsker(answer, InterContexts, InterCurrentContext)} :
          IF ret.err # "nil"
            THEN Return("context selection failed") /\ UNCHANGED <<selectedContexts, ctxIdx>>
            ELSE /\ selectedContexts' = ret.result
                 /\ ctxIdx' = 1
                 /\ pc' = "context"
                 /\ UNCHANGED retErr
  /\ UNCHANGED <<selectedResources, nsIdx, resIdx, items, itemIdx, stderr, listCalls, faults,
                 exp, fs, exportCalls, selectedNamespaces, reports>>
  /\ InterUnchanged

\* runInteractive, lines 243-307: the client, the namespaces, the resource
\* types, the output directory and the Exporter of one context.
InterStartContext ==
  /\ pc = "context"
  /\ ctxIdx <= Len(selectedContexts)
  /\ LET contextName == selectedContexts[ctxIdx]
         header == <<[text |-> "=== Processing context: %s ===", arg |-> contextName]>>
         Stop(err, lines) ==
           /\ Return(err)
           /\ stdout' = stdout \o lines
           /\ UNCHANGED <<selectedNamespaces, selectedResources, exp>>
     IN  \E broken \in {"none", "client", "namespaces"}, e \in DiscoveryErrors,
            nsAnswer \in AskerAnswers(InterNamespaces) :
           /\ (broken # "none" \/ e # "nil") => faults < MaxFaults
           /\ faults' = IF broken # "none" \/ e # "nil" THEN faults + 1 ELSE faults
           /\ LET nsRet == promptNamespaceSelectionWithAsker(nsAnswer, InterNamespaces)
                  disc == DiscoverResources(<<CoreList>>, e)
                  nsLines == header \o <<[text |-> "Selecting namespace(s)..."]>>
                  discLines == nsLines \o <<[text |-> "Discovering available resources..."]>>
                  resLines == discLines \o <<[text |-> "Selecting resource type(s)..."]>>
              IN  IF broken = "client"
                    THEN Stop("failed to create client for context %s", header)
                  ELSE IF broken = "namespaces"
                    THEN Stop("failed to list namespaces", header)
                  ELSE IF nsRet.err # "nil"
                    THEN Stop("namespace selection failed", nsLines)
                  ELSE IF disc.err # "nil"
                    THEN Stop("failed to discover resources", discLines)
                  ELSE
                    \E resAnswer \in AskerAnswers(FormatResourceOptions(disc.resources)),
                       dirAnswer \in DirectoryAnswers(DefaultDir(contextName)) :
                      LET resRet == promptResourceSelectionWithAsker(resAnswer, disc.resources)
                          dirRet == SelectOutputDir(interFlags.interactiveOutputDir, dirAnswer,
                                                    DefaultDir(contextName))
                      IN  IF resRet.err # "nil"
                            THEN Stop("resource selection failed", resLines)
                          ELSE IF dirRet.err # "nil"
                            THEN Stop("directory selection failed", resLines)
                          ELSE /\ selectedNamespaces' = nsRet.result
                               /\ selectedResources' = resRet.result
                               /\ exp' = NewExporter(dirRet.result)
                               /\ stdout' = stdout \o resLines
                                              \o <<[text |-> "Exporting manifests..."]>>
                               /\ pc' = "loop"
                               /\ UNCHANGED retErr
  /\ nsIdx' = 1
  /\ resIdx' = 1
  /\ UNCHANGED <<items, itemIdx, stderr, listCalls, fs, exportCalls, selectedContexts, ctxIdx,
                 reports>>
  /\ InterUnchanged

InterInLoop ==
  /\ pc = "loop"
  /\ nsIdx <= Len(selectedNamespaces)
  /\ resIdx <= Len(selectedResources)

\* The inner loop is over: the next namespace.
InterNextNamespace ==
  /\ pc = "loop"
  /\ nsIdx <= Len(selectedNamespaces)
  /\ resIdx > Len(selectedResources)
  /\ nsIdx' = nsIdx + 1
  /\ resIdx' = 1
  /\ UNCHANGED <<pc, selectedResources, items, itemIdx, stdout, stderr, listCalls, faults,
                 retErr, exp, fs, exportCalls, selectedContexts, ctxIdx, selectedNamespaces,
                 reports>>
  /\ InterUnchanged

\* runInteractive, lines 310-312
InterSkipResource ==
  /\ InterInLoop
  /\ ~shouldProcessResource(selectedResources[resIdx], selectedNamespaces[nsIdx])
  /\ resIdx' = resIdx + 1
  /\ UNCHANGED <<pc, selectedResources, nsIdx, items, itemIdx, stdout, stderr, listCalls,
                 faults, retErr, exp, fs, exportCalls, selectedContexts, ctxIdx,
                 selectedNamespaces, reports>>
  /\ InterUnchanged

\* runInteractive, lines 314-327
InterListResources ==
  /\ InterInLoop
  /\ LET resource == selectedResources[resIdx]
         namespace == selectedNamespaces[nsIdx]
         contextName == selectedContexts[ctxIdx]
         call == [namespace |-> IF resource.Namespaced THEN namespace ELSE <<>>,
                  namespaced |-> resource.Namespaced,
                  group |-> resource.Group, version |-> resource.Version,
                  resource |-> resource.Name]
     IN  /\ shouldProcessResource(resource, namespace)
         /\ \/ /\ faults < MaxFaults
               /\ faults' = faults + 1
               /\ listCalls' = Append(listCalls, [call |-> call, err |-> TRUE, items |-> <<>>])
               /\ stderr' = Append(stderr, [text |-> "Warning: failed to list %s in %s",
                                            arg |-> <<resource.Name, namespace>>])
               /\ resIdx' = resIdx + 1
               /\ UNCHANGED <<pc, items, itemIdx>>
            \/ \E got \in {ContextListItems(contextName, clusters[contextName], resource,
                                            call.namespace)} :
                   /\ listCalls' = Append(listCalls, [call |-> call, err |-> FALSE, items |-> got])
                   /\ UNCHANGED <<faults, stderr>>
                   /\ IF got = <<>>
                        THEN resIdx' = resIdx + 1 /\ UNCHANGED <<pc, items, itemIdx>>
                        ELSE pc' = "items" /\ items' = got /\ itemIdx' = 1 /\ UNCHANGED resIdx
  /\ UNCHANGED <<selectedResources, nsIdx, stdout, retErr, exp, fs, exportCalls,
                 selectedContexts, ctxIdx, selectedNamespaces, reports>>
  /\ InterUnchanged

\* runInteractive, lines 331-334
InterDryRunItem ==
  /\ pc = "items"
  /\ interFlags.interactiveDryRun
  /\ stdout' = Append(stdout,
                      formatOutputMessage(TRUE, selectedNamespaces[nsIdx],
                                          selectedResources[resIdx].Name,
                                          GetName(items[itemIdx])))
  /\ AdvanceItem
  /\ UNCHANGED <<selectedResources, nsIdx, stderr, listCalls, faults, retErr, exp, fs,
                 exportCalls, selectedContexts, ctxIdx, selectedNamespaces, reports>>
  /\ InterUnchanged

\* runInteractive, lines 336-340
InterExportItem ==
  /\ pc = "items"
  /\ ~interFlags.interactiveDryRun
  /\ \E outcome \in WriteOutcomes :
       /\ outcome # "ok" => faults < MaxFaults
       /\ faults' = IF outcome = "ok" THEN faults ELSE faults + 1
       /\ \E resource \in {selectedResources[resIdx]},
             namespace \in {selectedNamespaces[nsIdx]},
             item \in {items[itemIdx]} :
           \E ret \in {ExportResource(exp, fs, item, resource.Name, namespace, outcome)} :
              /\ exp' = ret.e
              /\ fs' = ret.fs
              /\ exportCalls' = exportCalls + 1
              /\ IF ret.err # "nil"
                   THEN /\ stderr' = Append(stderr, [text |-> "Warning: failed to export %s/%s: %v",
                                                     arg |-> <<resource.Name, GetName(item), ret.err>>])
                        /\ UNCHANGED stdout
                   ELSE /\ stdout' = Append(stdout,
                                            formatOutputMessage(FALSE, namespace, resource.Name,
                                                                GetName(item)))
                        /\ UNCHANGED stderr
  /\ AdvanceItem
  /\ UNCHANGED <<selectedResources, nsIdx, listCalls, retErr, selectedContexts, ctxIdx,
                 selectedNamespaces, reports>>
  /\ InterUnchanged

\* runInteractive, lines 345-349: the summary of the context's Exporter, and
\* the next context.
InterPrintSummary ==
  /\ pc = "loop"
  /\ nsIdx > Len(selectedNamespaces)
  /\ stdout' = IF ~interFlags.interactiveDryRun THEN Append(stdout, Summary(exp)) ELSE stdout
  /\ reports' = Append(reports, [context |-> selectedContexts[ctxIdx],
                                 printed |-> ~interFlags.interactiveDryRun,
                                 summary |-> Summary(exp)])
  /\ ctxIdx' = ctxIdx + 1
  /\ pc' = "context"
  /\ UNCHANGED <<selectedResources, nsIdx, resIdx, items, itemIdx, stderr, listCalls, faults,
                 retErr, exp, fs, exportCalls, selectedContexts, selectedNamespaces>>
  /\ InterUnchanged

\* runInteractive, line 351
InterReturn ==
  /\ pc = "context"
  /\ ctxIdx > Len(selectedContexts)
  /\ Return("nil")
  /\ UNCHANGED <<selectedResources, nsIdx, resIdx, items, itemIdx, stdout, stderr, listCalls,
                 faults, exp, fs, exportCalls, selectedContexts, ctxIdx, selectedNamespaces,
                 reports>>
  /\ InterUnchanged

NextInteractive ==
  \/ InterLoadKubeConfig
  \/ InterSelectContexts
  \/ InterStartContext
  \/ InterNextNamespace
  \/ InterSkipResource
  \/ InterListResources
  \/ InterDryRunItem
  \/ InterExportItem
  \/ InterPrintSummary
  \/ InterReturn

SpecInteractive == InitInteractive /\ [][NextInteractive]_vars

----------------------------------------------------------------------------
(* Claims on the Exporter *)

\* The metadata name of obj is empty or absent.
C5_NameEmptyOrAbsent(obj) ==
  \/ "metadata" \notin DOMAIN obj
  \/ obj["metadata"].t # "map"
  \/ "name" \notin DOMAIN obj["metadata"].m
  \/ obj["metadata"].m["name"] = StringValue(<<>>)

\* C5: ExportResource called with an object whose metadata name is empty or
\* absent returns the missing-name error, writes no file (the file system is
\* as before the call) and leaves ExportedCount unchanged.
C5_EmptyNameRejected ==
  (lastExport.called /\ C5_NameEmptyOrAbsent(lastExport.obj)) =>
    /\ lastExport.err = "resource has no name"
    /\ fs = lastExport.fsBefore
    /\ exp.ExportedCount = lastExport.expBefore.ExportedCount

\* A call with an empty name on an Exporter that has exported one object.
C5_Witness ==
  /\ lastExport.called
  /\ "metadata" \in DOMAIN lastExport.obj
  /\ lastExport.obj["metadata"].t = "map"
  /\ "name" \in DOMAIN lastExport.obj["metadata"].m
  /\ lastExport.obj["metadata"].m["name"] = StringValue(<<>>)
  /\ lastExport.expBefore.ExportedCount = 1
  /\ DOMAIN lastExport.fsBefore.files # {}
  /\ lastExport.err # "nil"

----------------------------------------------------------------------------
(* Claims on runExport *)

Finished == pc = "done" /\ retErr = "nil"

\* The number of objects the list calls returned.
RECURSIVE ListedCount(_)
ListedCount(calls) ==
  IF calls = <<>> THEN 0 ELSE Len(Head(calls).items) + ListedCount(Tail(calls))

PrintedWith(out, text) == {i \in DOMAIN out : out[i].text = text}

\* C6: in a dry run whose list calls return N objects in total, the file
\* system is never written (no directory, no file, no ExportResource call),
\* exactly N dry-run notices are printed, and no summary is printed.
C6_DryRunWritesNothing ==
  flags.exportDryRun =>
    /\ fs = EmptyFS
    /\ exportCalls = 0
    /\ PrintedWith(stdout, "Exported: ") = {}
    /\ PrintedWith(stdout, "Exported %d manifests to %s") = {}
    /\ Cardinality(PrintedWith(stdout, "[DRY-RUN] Would export: ")) <= ListedCount(listCalls)
    /\ pc \in {"loop", "done"} =>
         Cardinality(PrintedWith(stdout, "[DRY-RUN] Would export: ")) = ListedCount(listCalls)

\* A finished dry run that listed two objects.
C6_Witness ==
  /\ Finished
  /\ flags.exportDryRun
  /\ ListedCount(listCalls) = 2
  /\ Len(listCalls) >= 2

\* Every (list call, item) of the run, in order: the objects returned.
RECURSIVE Returned(_)
Returned(calls) ==
  IF calls = <<>> THEN <<>>
  ELSE [i \in DOMAIN Head(calls).items |->
          [namespace |-> Head(calls).call.namespace, resource |-> Head(calls).call.resource,
           item |-> Head(calls).items[i]]]
         \o Returned(Tail(calls))

C7_Name(r) == r.item["metadata"].m["name"].s

\* The file the operating system finds at a path: "." and empty elements
\* name no directory of their own.
C7_FileAt(path) == Clean(path)

C7_Precondition ==
  /\ Finished
  /\ ~flags.exportDryRun
  /\ \A i \in DOMAIN listCalls : ~listCalls[i].err
  /\ PrintedWith(stderr, "Warning: failed to export %s/%s: %v") = {}
  /\ LET rs == Returned(listCalls)
     IN  \A i, j \in DOMAIN rs :
           (/\ rs[i].namespace = rs[j].namespace
            /\ rs[i].resource = rs[j].resource
            /\ C7_Name(rs[i]) = C7_Name(rs[j])) => i = j

\* C7: after a non-dry run in which every list call and every write succeeded
\* and no two exported objects share (namespace, resource type name, object
\* name), every returned object o has a file at
\* {baseDir}/{namespace}/{resourceType.name}/{o.name}.yaml whose document is
\* CleanManifest(o), without a status key, and the summary reports the number
\* of returned objects.
C7_ExportWritesEveryObject ==
  C7_Precondition =>
    LET rs == Returned(listCalls)
    IN  /\ \A i \in DOMAIN rs :
             LET p == C7_FileAt(flags.exportOutputDir \o <<"/">> \o rs[i].namespace \o <<"/">>
                                  \o rs[i].resource \o <<"/">> \o C7_Name(rs[i])
                                  \o <<".", "y", "a", "m", "l">>)
             IN  /\ p \in DOMAIN fs.files
                 /\ fs.files[p] = [yaml |-> CleanManifest(rs[i].item)]
                 /\ "status" \notin DOMAIN fs.files[p].yaml
        /\ stdout[Len(stdout)] = [text |-> "Exported %d manifests to %s", count |-> Len(rs),
                                  dir |-> flags.exportOutputDir]
        /\ exp.ExportedCount = Len(rs)

\* A finished export of two objects from two list calls.
C7_Witness ==
  /\ C7_Precondition
  /\ Len(Returned(listCalls)) = 2
  /\ Len(listCalls) >= 2
  /\ \A i \in DOMAIN listCalls : \A k \in DOMAIN listCalls[i].items :
       "status" \in DOMAIN listCalls[i].items[k]
  /\ exp.ExportedCount = 2

\* C8: shouldProcessResource is false exactly for a cluster-scoped resource
\* type with a non-empty namespace; in a run whose namespaces are all
\* non-empty no list call is issued for a cluster-scoped resource type, and
\* every file written is that of an item of a namespaced list call.
C8_ClusterScopedSkipped ==
  /\ \A i \in DOMAIN selectedResources, j \in DOMAIN flags.exportNamespaces :
       shouldProcessResource(selectedResources[i], flags.exportNamespaces[j]) =
         ~(selectedResources[i].Namespaced = FALSE /\ flags.exportNamespaces[j] # <<>>)
  /\ (\A j \in DOMAIN flags.exportNamespaces : flags.exportNamespaces[j] # <<>>) =>
       /\ \A i \in DOMAIN listCalls : listCalls[i].call.namespaced
       /\ \A i \in DOMAIN listCalls :
            \E k \in DOMAIN discovered.resources :
              /\ discovered.resources[k].Namespaced
              /\ discovered.resources[k].Name = listCalls[i].call.resource
              /\ discovered.resources[k].Group = listCalls[i].call.group
       /\ \A p \in DOMAIN fs.files :
            \E i \in DOMAIN listCalls : \E k \in DOMAIN listCalls[i].items :
              /\ listCalls[i].call.namespaced
              /\ p = GenerateFilePath(exp.BaseDir, listCalls[i].call.namespace,
                                      listCalls[i].call.resource,
                                      GetName(listCalls[i].items[k]))

\* A finished run over non-empty namespaces that selected a cluster-scoped
\* type of which the cluster holds an object, and that listed another type.
C8_Witness ==
  /\ Finished
  /\ \A j \in DOMAIN flags.exportNamespaces : flags.exportNamespaces[j] # <<>>
  /\ \E i \in DOMAIN selectedResources : ~selectedResources[i].Namespaced
  /\ 4 \in objects
  /\ listCalls # <<>>
  /\ DOMAIN fs.files # {}

\* Whether the cluster exposes a resource type of this name.
C9_Exposed(name) ==
  \E k \in DOMAIN discovered.resources : discovered.resources[k].Name = name

\* The entries of a sequence that satisfy (or not) C9_Exposed, in order.
RECURSIVE C9_Requested(_, _)
C9_Requested(requested, exposed) ==
  IF requested = <<>> THEN <<>>
  ELSE (IF C9_Exposed(Head(requested)) = exposed THEN <<Head(requested)>> ELSE <<>>)
         \o C9_Requested(Tail(requested), exposed)

C9_Selecting ==
  /\ ~flags.exportAllRes
  /\ discovered.called
  /\ discovered.err = "nil"
  /\ pc \in {"loop", "items", "done"}

\* C9: when the requested names hold at least one exposed name and some that
\* are not, the export proceeds with exactly the descriptors of the found
\* names, in request order, one warning is printed for each requested name
\* that is not found, naming it, and the run does not abort.
C9_PartialSelection ==
  (/\ C9_Selecting
   /\ C9_Requested(flags.exportResources, TRUE) # <<>>
   /\ C9_Requested(flags.exportResources, FALSE) # <<>>) =>
    LET found == C9_Requested(flags.exportResources, TRUE)
        missing == C9_Requested(flags.exportResources, FALSE)
        warned == PrintedWith(stderr, "Warning: resource type %s not found in cluster")
    IN  /\ Len(selectedResources) = Len(found)
        /\ \A k \in DOMAIN found :
             /\ selectedResources[k].Name = found[k]
             /\ \E d \in DOMAIN discovered.resources : discovered.resources[d] = selectedResources[k]
        /\ Cardinality(warned) = Len(missing)
        /\ \A k \in DOMAIN missing : stderr[k] =
             [text |-> "Warning: resource type %s not found in cluster", arg |-> missing[k]]
        /\ pc = "done" => retErr = "nil"

\* A finished run that asked for two exposed names around one that is not.
C9_Witness ==
  /\ Finished
  /\ C9_Selecting
  /\ Len(C9_Requested(flags.exportResources, TRUE)) = 2
  /\ Len(C9_Requested(flags.exportResources, FALSE)) = 1
  /\ selectedResources[1].Name # selectedResources[2].Name
  /\ listCalls # <<>>

\* C10: when an explicit resource name list is given without the all-resources
\* flag and none of its names is exposed by the cluster, the run aborts with
\* "no valid resource types found", and makes no list call and no file write.
C10_NothingSelectedAborts ==
  (/\ ~flags.exportAllRes
   /\ flags.exportResources # <<>>
   /\ discovered.called
   /\ discovered.err = "nil"
   /\ C9_Requested(flags.exportResources, TRUE) = <<>>) =>
    /\ pc \in {"select", "done"}
    /\ pc = "done" => retErr = "no valid resource types found"
    /\ listCalls = <<>>
    /\ exportCalls = 0
    /\ fs = EmptyFS

\* A run that asked for two names the cluster does not expose, and returned,
\* in a cluster that holds objects.
C10_Witness ==
  /\ pc = "done"
  /\ ~flags.exportAllRes
  /\ Len(flags.exportResources) = 2
  /\ discovered.called
  /\ discovered.err = "nil"
  /\ discovered.resources # <<>>
  /\ C9_Requested(flags.exportResources, TRUE) = <<>>
  /\ objects # {}
  /\ Len(stderr) = 2

\* The list calls a run makes when it goes through both loops: the pairs of
\* the namespaces (outer) and the resource types (inner) that are not a
\* cluster-scoped type in a named namespace.
RECURSIVE CallsOfNamespace(_, _)
CallsOfNamespace(namespace, resources) ==
  IF resources = <<>> THEN <<>>
  ELSE LET r == Head(resources)
       IN  (IF r.Namespaced \/ namespace = <<>>
              THEN <<[namespace |-> IF r.Namespaced THEN namespace ELSE <<>>,
                      namespaced |-> r.Namespaced, group |-> r.Group,
                      version |-> r.Version, resource |-> r.Name]>>
              ELSE <<>>)
             \o CallsOfNamespace(namespace, Tail(resources))

RECURSIVE CallsOfRun(_, _)
CallsOfRun(namespaces, resources) ==
  IF namespaces = <<>> THEN <<>>
  ELSE CallsOfNamespace(Head(namespaces), resources) \o CallsOfRun(Tail(namespaces), resources)

C14_FailedCalls == {i \in DOMAIN listCalls : listCalls[i].err}

\* C14: when the list call of a pair fails, a warning is printed for it, no
\* object is taken from it (every file and every count comes from an item a
\* successful list call returned), the run goes on and never returns an
\* error, and when it has returned every pair of the run was listed and every
\* listed object processed.
C14_ListFailureSkipsPair ==
  C14_FailedCalls # {} =>
    /\ retErr \in {"none", "nil"}
    /\ pc \in {"loop", "items", "done"}
    /\ Cardinality(PrintedWith(stderr, "Warning: failed to list %s in %s"))
         = Cardinality(C14_FailedCalls)
    /\ \A i \in C14_FailedCalls :
         \E w \in DOMAIN stderr :
           stderr[w] = [text |-> "Warning: failed to list %s in %s",
                        arg |-> <<listCalls[i].call.resource,
                                  listCalls[i].call.namespace>>]
    /\ exp.ExportedCount <= ListedCount(listCalls)
    /\ exportCalls <= ListedCount(listCalls)
    /\ \A p \in DOMAIN fs.files :
         \E i \in DOMAIN listCalls \ C14_FailedCalls : \E k \in DOMAIN listCalls[i].items :
           p = GenerateFilePath(exp.BaseDir, listCalls[i].call.namespace,
                                listCalls[i].call.resource, GetName(listCalls[i].items[k]))
    /\ pc = "done" =>
         /\ Len(listCalls) = Len(CallsOfRun(flags.exportNamespaces, selectedResources))
         /\ ~flags.exportDryRun => exportCalls = ListedCount(listCalls)
         /\ flags.exportDryRun =>
              Cardinality(PrintedWith(stdout, "[DRY-RUN] Would export: "))
                = ListedCount(listCalls)

\* A finished run whose first list call failed for a pair of which the
\* cluster holds an object, and whose later list call led to a file.
C14_Witness ==
  /\ Finished
  /\ ~flags.exportDryRun
  /\ Len(listCalls) >= 2
  /\ listCalls[1].err
  /\ listCalls[1].call.namespace = s_default
  /\ listCalls[1].call.resource = s_pods
  /\ \E o \in objects : ClusterUniverse[o].namespace = s_default
                      /\ ClusterUniverse[o].resource = s_pods
                      /\ ClusterUniverse[o].group = listCalls[1].call.group
  /\ ~listCalls[2].err
  /\ exp.ExportedCount >= 1
  /\ DOMAIN fs.files # {}

C15_FailedExports == PrintedWith(stderr, "Warning: failed to export %s/%s: %v")

\* C15: an export that fails (directory creation, YAML serialization or file
\* write) is not counted and is reported by a warning naming the object and
\* the error; the run goes on with the remaining objects and pairs and never
\* returns an error, so that when it has returned every pair was listed and
\* every listed object was handed to ExportResource.
C15_ExportFailureIsWarning ==
  ~flags.exportDryRun =>
    /\ exp.ExportedCount + Cardinality(C15_FailedExports) = exportCalls
    /\ exp.ExportedCount = Cardinality(PrintedWith(stdout, "Exported: "))
    /\ \A w \in C15_FailedExports :
         stderr[w].arg[3] \in {"failed to create directory", "failed to marshal to YAML",
                               "failed to write file"}
    /\ C15_FailedExports # {} =>
         /\ retErr \in {"none", "nil"}
         /\ pc \in {"loop", "items", "done"}
         /\ pc = "done" =>
              /\ Len(listCalls) = Len(CallsOfRun(flags.exportNamespaces, selectedResources))
              /\ exportCalls = ListedCount(listCalls)
              /\ stdout[Len(stdout)] =
                   [text |-> "Exported %d manifests to %s",
                    count |-> ListedCount(listCalls) - Cardinality(C15_FailedExports),
                    dir |-> flags.exportOutputDir]

\* A finished run in which the first of two objects of a pair failed to
\* export and the second was exported.
C15_Witness ==
  /\ Finished
  /\ ~flags.exportDryRun
  /\ Len(listCalls) >= 1
  /\ Len(listCalls[1].items) = 2
  /\ exportCalls = 2
  /\ exp.ExportedCount = 1
  /\ \E w \in C15_FailedExports : stderr[w].arg[2] = s_a
  /\ \E i \in PrintedWith(stdout, "Exported: ") :
       stdout[i].arg = s_default \o <<SLASH>> \o s_pods \o <<SLASH>> \o s_web

\* The stages of the two commands, in the order of the claim.
C16_ManifestStages ==
  <<"validate flags", "load kubeconfig", "create client", "discover resources", "list", "write">>
C16_HelmStages ==
  <<"helm installed", "validate flags", "load kubeconfig", "create client", "helm list",
    "helm get values", "write">>

C16_IsHelm == helmFlags.helmExportOutputDir # <<>>

\* The stage a fatal error names.
C16_StageOf(err) ==
  CASE err = "helm CLI is not installed or not in PATH" -> "helm installed"
    [] err = "either --resources or --all-resources is required" -> "validate flags"
    [] err = "must specify either --releases or --all" -> "validate flags"
    [] err = "failed to load kubeconfig" -> "load kubeconfig"
    [] err = "failed to create client for context" -> "create client"
    [] err = "failed to discover resources" -> "discover resources"
    [] err = "no valid resource types found" -> "discover resources"
    [] OTHER -> "unknown"

C16_NoFlagGiven ==
  IF C16_IsHelm
    THEN ~helmFlags.helmExportAll /\ helmFlags.helmExportReleases = <<>>
    ELSE ~flags.exportAllRes /\ flags.exportResources = <<>>

\* C16: the stages of a run are entered in the fixed order (for the Helm
\* command the check of the helm binary first); a failed stage makes the
\* command return an error that names that stage, and then no later stage
\* was entered: no list call, no helm invocation and no file write happened.
C16_StagesInOrder ==
  LET order == IF C16_IsHelm THEN C16_HelmStages ELSE C16_ManifestStages
  IN  /\ Len(stages) <= Len(order)
      /\ stages = SubSeq(order, 1, Len(stages))
      /\ retErr \notin {"none", "nil"} =>
           /\ pc = "done"
           /\ stages # <<>>
           /\ stages[Len(stages)] = C16_StageOf(retErr)
           /\ listCalls = <<>>
           /\ helmCalls = <<>>
           /\ exportCalls = 0
           /\ fs = EmptyFS
      /\ (C16_IsHelm /\ ~helmInstalled /\ stages # <<>>) =>
           /\ retErr = "helm CLI is not installed or not in PATH"
           /\ stages = <<"helm installed">>
      /\ (C16_NoFlagGiven /\ (\E i \in DOMAIN stages : stages[i] = "validate flags")) =>
           /\ C16_StageOf(retErr) = "validate flags"
           /\ stages[Len(stages)] = "validate flags"
      /\ (discovered.called /\ discovered.err # "nil") =>
           retErr = "failed to discover resources"
      /\ (listCalls # <<>> \/ exportCalls > 0) =>
           /\ ~C16_IsHelm
           /\ discovered.called /\ discovered.err = "nil"
           /\ \E i \in DOMAIN stdout : stdout[i].text = "Using context: "
      /\ helmCalls # <<>> =>
           /\ C16_IsHelm /\ helmInstalled
           /\ \E i \in DOMAIN stdout : stdout[i].text = "Using context: "
      /\ fs # EmptyFS => listCalls # <<>> \/ helmCalls # <<>>

\* A manifest export that failed at discovery, in a cluster that holds
\* objects: the three stages before it were entered, and nothing after it.
C16_Witness ==
  /\ pc = "done"
  /\ retErr = "failed to discover resources"
  /\ stages = SubSeq(C16_ManifestStages, 1, 4)
  /\ objects # {}
  /\ flags.exportResources # <<>>

C17_Summaries == PrintedWith(stdout, "Exported %d manifests to %s")

\* What holds of the counter and the summary in every state of a run.
C17_CountAndSummary ==
  /\ exportCalls = 0 => exp.ExportedCount = 0
  /\ exp.ExportedCount <= exportCalls
  /\ flags.exportDryRun => C17_Summaries = {}
  /\ pc # "done" => C17_Summaries = {}
  /\ (Finished /\ ~flags.exportDryRun) =>
       /\ C17_Summaries = {Len(stdout)}
       /\ stdout[Len(stdout)] = [text |-> "Exported %d manifests to %s",
                                 count |-> exp.ExportedCount, dir |-> exp.BaseDir]
       /\ exp.BaseDir = flags.exportOutputDir

\* What holds of the counter in every step of a run: a step that is an
\* ExportResource call adds one when the call returns nil and nothing when
\* it returns an error; no other step changes the counter.
C17_CountStep ==
  /\ exp'.ExportedCount >= exp.ExportedCount
  /\ IF exportCalls' = exportCalls + 1
       THEN IF Len(stderr') > Len(stderr)
              THEN exp'.ExportedCount = exp.ExportedCount
              ELSE exp'.ExportedCount = exp.ExportedCount + 1
       ELSE exp'.ExportedCount = exp.ExportedCount

\* C17: ExportedCount starts at 0, never decreases, grows by one with each
\* ExportResource call that returns nil and not with one that returns an
\* error; the summary is printed once, as the last line of a non-dry run
\* that reached its end, with this count and the base directory, and never
\* in a dry run.
C17_CounterAndSummary == []C17_CountAndSummary /\ [][C17_CountStep]_vars

\* A finished run of two ExportResource calls, one of which failed.
C17_Witness ==
  /\ Finished
  /\ ~flags.exportDryRun
  /\ exportCalls = 2
  /\ exp.ExportedCount = 1
  /\ stdout[Len(stdout)].text = "Exported %d manifests to %s"
  /\ stdout[Len(stdout)].count = 1

\* The objects of the run handed to ExportResource or announced so far.
C18_Processed ==
  IF flags.exportDryRun
    THEN Cardinality(PrintedWith(stdout, "[DRY-RUN] Would export: "))
    ELSE exportCalls

\* C18: the list calls of a run are, in order, the pairs of the namespaces
\* (outer loop, in the order given) and the selected resource types (inner
\* loop, in the order selected) that pass the scope check, each listed once,
\* a failed one included; and every object of a pair is processed before the
\* next pair is listed.
C18_ListCallsInLoopOrder ==
  LET expected == CallsOfRun(flags.exportNamespaces, selectedResources)
  IN  /\ Len(listCalls) <= Len(expected)
      /\ \A i \in DOMAIN listCalls : listCalls[i].call = expected[i]
      /\ Finished => Len(listCalls) = Len(expected)
      /\ pc \in {"loop", "done"} => C18_Processed = ListedCount(listCalls)
      /\ pc = "items" =>
           /\ items = listCalls[Len(listCalls)].items
           /\ C18_Processed = ListedCount(listCalls) - Len(items) + (itemIdx - 1)

\* A finished run over two namespaces and two selected resource types, of
\* which the cluster-scoped one is passed over, with a failed list call
\* between two that returned objects.
C18_Witness ==
  /\ Finished
  /\ Len(flags.exportNamespaces) = 2
  /\ flags.exportNamespaces[1] # flags.exportNamespaces[2]
  /\ Len(selectedResources) = 3
  /\ \E i \in DOMAIN selectedResources : ~selectedResources[i].Namespaced
  /\ Len(listCalls) = 4
  /\ listCalls[1].items # <<>>
  /\ listCalls[2].err
  /\ listCalls[3].items # <<>>

----------------------------------------------------------------------------
(* Claims on two runs in sequence *)

\* The summary lines of a stream.
C19_Reports(out) == {out[i] : i \in PrintedWith(out, "Exported %d manifests to %s")}

\* The list calls returned the same objects, none failing.
C19_SameLists ==
  /\ Len(listCalls) = Len(firstRun.listCalls)
  /\ \A i \in DOMAIN listCalls :
       /\ ~listCalls[i].err /\ ~firstRun.listCalls[i].err
       /\ listCalls[i] = firstRun.listCalls[i]

\* The warnings of a stream for a failed directory creation, serialization
\* or file write.
C19_WriteFailures(errs) ==
  {i \in PrintedWith(errs, "Warning: failed to export %s/%s: %v") :
     errs[i].arg[3] \in {"failed to create directory", "failed to marshal to YAML",
                         "failed to write file"}}

C19_SameTreeAndCount ==
  /\ fs = firstRun.fs
  /\ C19_Reports(stdout) = C19_Reports(firstRun.stdout)
  /\ Cardinality(C19_Reports(stdout)) = 1

----------------------------------------------------------------------------
(* Claims on the Helm values export *)

\* The releases of a successful list call that are to be exported.
C20_Wanted(releases) ==
  LET Requested(rel) == \E i \in DOMAIN helmFlags.helmExportReleases :
                          helmFlags.helmExportReleases[i] = rel.Name
  IN  IF helmFlags.helmExportAll THEN releases ELSE SelectSeq(releases, Requested)

\* The (namespace, release name) pairs the list calls of a run ask to export.
RECURSIVE C20_WantedOf(_)
C20_WantedOf(calls) ==
  IF calls = <<>> THEN <<>>
  ELSE LET call == Head(calls)
           wanted == C20_Wanted(call.releases)
       IN  (IF call.op = "list"
              THEN [i \in 1..Len(wanted) |-> <<call.namespace, wanted[i].Name>>]
              ELSE <<>>)
             \o C20_WantedOf(Tail(calls))

\* The (namespace, release name) pairs the run has handled so far: the
\* releases whose values were asked for, or in a dry run those announced.
C20_Handled ==
  LET GetsValues(call) == call.op = "get values"
      Announces(line) == line.text = "[DRY-RUN] Would export: %s/%s (%s)"
      got == SelectSeq(helmCalls, GetsValues)
      told == SelectSeq(stdout, Announces)
  IN  IF helmFlags.helmExportDryRun
        THEN [i \in 1..Len(told) |-> <<told[i].arg[1], told[i].arg[2]>>]
        ELSE [i \in 1..Len(got) |-> <<got[i].namespace, got[i].name>>]

C20_FailureWarnings ==
  {"Warning: failed to list Helm releases in %s: %v",
   "Warning: failed to get values for %s: %v",
   "Warning: failed to create directory %s: %v",
   "Warning: failed to write %s: %v"}

\* C20: for each namespace whose list call returns releases, the releases
\* exported are the discovered ones with the all flag, and otherwise the
\* discovered ones whose name is requested, in discovered order; a requested
\* name that is not discovered gives no error and no warning.
C20_ExportsDiscoveredAndRequested ==
  LET wanted == C20_WantedOf(helmCalls)
      left == IF pc = "helmReleases" THEN Len(releasesToExport) - itemIdx + 1 ELSE 0
  IN  /\ pc = "helmReleases" =>
           /\ releasesToExport # <<>>
           /\ \E i \in DOMAIN helmCalls :
                /\ helmCalls[i].op = "list"
                /\ \A j \in (i + 1)..Len(helmCalls) : helmCalls[j].op # "list"
                /\ helmCalls[i].namespace = helmFlags.helmExportNamespaces[nsIdx]
                /\ releasesToExport = C20_Wanted(helmCalls[i].releases)
      /\ C20_Handled = SubSeq(wanted, 1, Len(wanted) - left)
      /\ pc \in {"helmLoop", "helmReleases"} => retErr = "none"
      /\ (pc = "done" /\ helmCalls # <<>>) => retErr = "nil"
      /\ faults = 0 => stderr = <<>>
      /\ \A i \in DOMAIN stderr : stderr[i].text \in C20_FailureWarnings

C20_Witness ==
  /\ pc = "done" /\ retErr = "nil"
  /\ ~helmFlags.helmExportAll /\ ~helmFlags.helmExportDryRun
  /\ helmFlags.helmExportReleases = <<s_a, s_missing, s_web>>
  /\ \E i \in DOMAIN helmCalls :
       /\ helmCalls[i].op = "list"
       /\ Len(helmCalls[i].releases) = 2
       /\ helmCalls[i].releases[1].Name = s_web
  /\ C20_Handled = <<<<s_default, s_web>>, <<s_default, s_a>>>>
  /\ exportedCount = 2
  /\ stderr = <<>>

\* {baseDir}/{context}/{namespace}/{release.name}-values.yaml, written out.
C21_Literal(baseDir, ctx, namespace, releaseName) ==
  baseDir \o <<"/">> \o ctx \o <<"/">> \o namespace \o <<"/">> \o releaseName
    \o <<"-", "v", "a", "l", "u", "e", "s", ".", "y", "a", "m", "l">>

C21_Exported == PrintedWith(stdout, "Exported: %s/%s -> %s")

\* The paths for which a write was reported as failed.
C21_FailedWrites ==
  {stderr[i].arg : i \in PrintedWith(stderr, "Warning: failed to write %s: %v")}

\* The values fetches that succeeded, as (namespace, release name) pairs.
C21_Fetched ==
  {<<helmCalls[i].namespace, helmCalls[i].name>> :
     i \in {j \in DOMAIN helmCalls : helmCalls[j].op = "get values" /\ ~helmCalls[j].err}}

\* C21: in a non-preview Helm values run every release whose values were
\* fetched and whose file was written is reported with the path
\* {baseDir}/{context}/{namespace}/{name}-values.yaml; unless a write to that
\* path failed in the run, the file is there with its directory and holds
\* exactly the values document helm returned; when the run has ended every
\* release whose values were fetched and for which no directory creation or
\* write failed has its file.
C21_ValuesFileHoldsValues ==
  ~helmFlags.helmExportDryRun =>
    /\ \A i \in C21_Exported :
         LET namespace == stdout[i].arg[1]
             name == stdout[i].arg[2]
             file == stdout[i].arg[3]
         IN  /\ file = C21_Literal(helmFlags.helmExportOutputDir, helmFlags.helmExportCtx,
                                   namespace, name)
             /\ <<namespace, name>> \in C21_Fetched
             /\ file \in DOMAIN fs.files
             /\ Dir(file) \in fs.dirs
             /\ file \notin C21_FailedWrites =>
                  fs.files[file] = [yaml |-> GetValues(name, namespace)]
    /\ (pc = "done" /\ PrintedWith(stderr, "Warning: failed to create directory %s: %v") = {}) =>
         \A pair \in C21_Fetched :
           LET file == C21_Literal(helmFlags.helmExportOutputDir, helmFlags.helmExportCtx,
                                   pair[1], pair[2])
           IN  file \notin C21_FailedWrites =>
                 /\ file \in DOMAIN fs.files
                 /\ fs.files[file] = [yaml |-> GetValues(pair[2], pair[1])]
    /\ \A file \in DOMAIN fs.files :
         \/ file \in C21_FailedWrites
         \/ \E i \in C21_Exported : stdout[i].arg[3] = file

C21_Witness ==
  /\ pc = "done" /\ retErr = "nil"
  /\ ~helmFlags.helmExportDryRun
  /\ Cardinality(C21_Fetched) = 2
  /\ Cardinality(DOMAIN fs.files) = 2
  /\ C21_FailedWrites = {}
  /\ \E file \in DOMAIN fs.files :
       /\ file = <<"o", "u", "t", "/", "p", "r", "o", "d", "/", "d", "e", "f", "a", "u", "l",
                   "t", "/", "w", "e", "b", "-", "v", "a", "l", "u", "e", "s", ".", "y", "a",
                   "m", "l">>
       /\ fs.files[file] = [yaml |-> GetValues(s_web, s_default)]

\* The release listings of the run, in the order they were made.
C22_Lists ==
  LET IsList(call) == call.op = "list"
  IN  SelectSeq(helmCalls, IsList)

C22_Count(calls, failed) ==
  Cardinality({i \in DOMAIN calls : calls[i].err = failed})

C22_ReleaseWarnings ==
  PrintedWith(stderr, "Warning: failed to get values for %s: %v")
    \cup PrintedWith(stderr, "Warning: failed to create directory %s: %v")
    \cup PrintedWith(stderr, "Warning: failed to write %s: %v")

\* C22: a failed release listing skips its namespace only, an empty list is
\* no error, a failed values fetch, directory creation or write skips its
\* release only; each is reported by one warning or notice, every namespace
\* is listed and every release to export is handled, and the run returns nil.
C22_HelmFailuresSkipOneStep ==
  LET lists == C22_Lists
      listed == [i \in DOMAIN lists |-> lists[i].namespace]
      wanted == C20_WantedOf(helmCalls)
      listWarnings == PrintedWith(stderr, "Warning: failed to list Helm releases in %s: %v")
  IN  /\ listed = SubSeq(helmFlags.helmExportNamespaces, 1, Len(lists))
      /\ pc = "helmLoop" => Len(lists) = nsIdx - 1
      /\ pc = "helmReleases" => Len(lists) = nsIdx
      /\ (pc = "done" /\ retErr = "nil") => listed = helmFlags.helmExportNamespaces
      /\ (pc = "done" /\ retErr # "nil") => helmCalls = <<>> /\ stderr = <<>>
      /\ pc \in {"helmLoop", "helmReleases"} => retErr = "none"
      /\ Cardinality(listWarnings) = C22_Count(lists, TRUE)
      /\ \A i \in DOMAIN lists :
           lists[i].err => \E w \in listWarnings : stderr[w].arg = lists[i].namespace
      /\ Cardinality(PrintedWith(stdout, "No Helm releases found in namespace %s"))
           = Cardinality({i \in DOMAIN lists : ~lists[i].err /\ lists[i].releases = <<>>})
      /\ ~helmFlags.helmExportDryRun =>
           /\ Len(helmCalls) - Len(lists) = exportedCount + Cardinality(C22_ReleaseWarnings)
           /\ exportedCount = Cardinality(PrintedWith(stdout, "Exported: %s/%s -> %s"))
      /\ pc \in {"helmLoop", "done"} => C20_Handled = wanted
      /\ Cardinality(listWarnings) + Cardinality(C22_ReleaseWarnings) = Len(stderr)

C22_Witness ==
  /\ pc = "done" /\ retErr = "nil"
  /\ ~helmFlags.helmExportDryRun
  /\ Len(C22_Lists) = 2
  /\ C22_Lists[1].err
  /\ ~C22_Lists[2].err
  /\ exportedCount >= 1
  /\ Len(stderr) = 1

C23_Summaries == PrintedWith(stdout, "Exported %d Helm release value(s) to %s")

\* What holds of the count and the summary in every state of a Helm values run.
C23_CountAndSummary ==
  /\ helmCalls = <<>> => exportedCount = 0
  /\ pc # "done" => C23_Summaries = {}
  /\ (pc = "done" /\ retErr # "nil") => C23_Summaries = {}
  /\ helmFlags.helmExportDryRun =>
       /\ C23_Summaries = {}
       /\ \A i \in DOMAIN helmCalls : helmCalls[i].op = "list"
       /\ fs = EmptyFS
       /\ exportedCount = 0
  /\ (pc = "done" /\ retErr = "nil" /\ ~helmFlags.helmExportDryRun) =>
       /\ C23_Summaries = {Len(stdout)}
       /\ stdout[Len(stdout)] = [text |-> "Exported %d Helm release value(s) to %s",
                                 count |-> exportedCount,
                                 dir |-> helmFlags.helmExportOutputDir]

\* What holds of the count in every step: it grows by one in a step that
\* fetched the values of a release and wrote its file without a failure,
\* and does not change in any other step.
C23_CountStep ==
  LET fetched == /\ Len(helmCalls') = Len(helmCalls) + 1
                 /\ helmCalls'[Len(helmCalls')].op = "get values"
                 /\ ~helmCalls'[Len(helmCalls')].err
      call == helmCalls'[Len(helmCalls')]
      file == HelmValuesFile(HelmValuesDir(helmFlags.helmExportOutputDir,
                                           helmFlags.helmExportCtx, call.namespace),
                             call.name)
      written == /\ stderr' = stderr
                 /\ file \in DOMAIN fs'.files
                 /\ fs'.files[file] = [yaml |-> GetValues(call.name, call.namespace)]
  IN  IF fetched /\ written
        THEN exportedCount' = exportedCount + 1
        ELSE exportedCount' = exportedCount

----------------------------------------------------------------------------
(* Claims on the Helm table *)

\* The lines of the table after the header that are not empty.
C24_DataLines ==
  LET rows == SplitLines(helmOutput)
      IsData(i) == i > 1 /\ ~TrimsToEmpty(rows[i])
  IN  {i \in DOMAIN rows : IsData(i)}

\* C24: every non-header, non-empty line of at least 5 fields yields one
\* Release with name, namespace, revision, status and chart from fields 0,
\* 1, 2, 7 and 8, every line of fewer fields is skipped, and the parse
\* completes without failure.
C24_ParseCompletes ==
  LET rows == SplitLines(helmOutput)
      yielding == {i \in C24_DataLines : Len(Fields(rows[i])) >= 5}
  IN  /\ parsePc # "panic"
      /\ parsePc = "returned" => Len(parsedReleases) = Cardinality(yielding)

----------------------------------------------------------------------------
(* Claims on the prompts *)

\* C25: each multi-select prompt returns an error when there are no options,
\* when the prompt session fails or when nothing is selected, and a result
\* returned without an error is not empty.
C25_PromptNeverEmpty ==
  promptResult.called =>
    /\ (\/ promptCall.options = <<>>
        \/ promptCall.answer.err
        \/ promptCall.answer.selected = <<>>) => promptResult.err # "nil"
    /\ promptResult.err = "nil" => promptResult.result # <<>>

\* C27: ParseSelectedContext gives back the i-th context name from the i-th
\* option of FormatContextOptions, so the context prompt returns names of
\* the list it was given.
C27_ContextRoundTrip ==
  (promptResult.called /\ promptCall.fn = "PromptContextSelection") =>
    /\ \A i \in DOMAIN promptResult.shown :
         ParseSelectedContext(promptResult.shown[i]) = promptCall.options[i]
    /\ \A j \in DOMAIN promptResult.result :
         \E i \in DOMAIN promptCall.options : promptResult.result[j] = promptCall.options[i]

----------------------------------------------------------------------------
(* Claims on the errors of discovery *)

\* C26: a resource list whose group-version does not parse contributes
\* nothing and the other lists are still processed; a partial
\* group-discovery failure is tolerated and the result is built from the
\* lists returned; any other discovery error gives an error and no resources.
C26_DiscoveryErrors ==
  discovered.called =>
    LET in == InputEntries(apiResourceLists)
        out == discovered.resources
    IN  /\ discovered.given \in {"nil", "GroupDiscoveryFailed"} =>
             /\ discovered.err = "nil"
             /\ Len(out) = Cardinality({i \in DOMAIN in : C1_Eligible(in[i])})
             /\ \A i \in DOMAIN in :
                  C1_Eligible(in[i]) => \E k \in DOMAIN out : out[k] = C1_InfoOf(in[i])
             /\ \A k \in DOMAIN out :
                  \E i \in DOMAIN in :
                    ~ParseGroupVersion(in[i].gv).err /\ out[k] = C1_InfoOf(in[i])
        /\ discovered.given = "other" =>
             /\ discovered.err # "nil"
             /\ out = <<>>

\* A partial failure with a list that does not parse before one that does.
C26_Witness ==
  /\ discovered.called
  /\ discovered.given = "GroupDiscoveryFailed"
  /\ Len(apiResourceLists) = 3
  /\ ParseGroupVersion(apiResourceLists[2].GroupVersion).err
  /\ ~ParseGroupVersion(apiResourceLists[3].GroupVersion).err
  /\ Len(discovered.resources) = 2

----------------------------------------------------------------------------
(* Claims on concurrent calls *)

\* The goroutines between Lock and Unlock.
C28_InCriticalSection == {g \in Goroutines : gpc[g] \in {"load", "store", "unlock"}}

\* C28: the increments of ExportedCount exclude each other under the mutex,
\* and when all calls have returned ExportedCount is the number of calls
\* that returned nil.
C28_NoLostIncrement ==
  /\ Cardinality(C28_InCriticalSection) <= 1
  /\ \A g \in C28_InCriticalSection : mu = g
  /\ exp.ExportedCount =
       Cardinality({g \in Goroutines : gpc[g] = "unlock" \/ gret[g] = "nil"})
  /\ (\A g \in Goroutines : gpc[g] = "returned") =>
       exp.ExportedCount = Cardinality({g \in Goroutines : gret[g] = "nil"})

\* Every call has returned nil, one of them having waited for the mutex.
C28_Witness ==
  /\ \A g \in Goroutines : gpc[g] = "returned" /\ gret[g] = "nil"
  /\ exp.ExportedCount = MaxGoroutines

----------------------------------------------------------------------------
(* Claims on files that share a path *)

\* The lines printed for the successful ExportResource calls, in order.
C29_Lines == SelectSeq(stdout, LAMBDA l : l.text = "Exported: ")

\* The file of a printed namespace/type/name.
C29_PathOf(arg) == C7_FileAt(flags.exportOutputDir \o <<SLASH>> \o arg \o s_dot_yaml)

\* The distinct files the run has written.
C29_FilesWritten == {C29_PathOf(C29_Lines[i].arg) : i \in DOMAIN C29_Lines}

\* Two successful exports with the same (namespace, type name, object name).
C29_Collision ==
  \E i, j \in DOMAIN C29_Lines : i < j /\ C29_Lines[i].arg = C29_Lines[j].arg

C29_NoFailure ==
  /\ \A i \in DOMAIN listCalls : ~listCalls[i].err
  /\ PrintedWith(stderr, "Warning: failed to export %s/%s: %v") = {}

\* C29: in a non-dry run ExportedCount is the number of successful exports,
\* every one of them has its file, any other file is what a failed write
\* left, the number of distinct files written is at most ExportedCount, and
\* equal exactly when no two successful exports share (namespace, resource
\* type name, object name); after a run without failures two returned objects
\* with the same triple have one path, whose file holds the later of them,
\* and ExportedCount counts both.
C29_SamePathBothCounted ==
  ~flags.exportDryRun =>
    /\ exp.ExportedCount = Len(C29_Lines)
    /\ C29_FilesWritten \subseteq DOMAIN fs.files
    /\ \A p \in (DOMAIN fs.files) \ C29_FilesWritten : fs.files[p] = TruncatedData
    /\ Cardinality(C29_FilesWritten) <= exp.ExportedCount
    /\ (Cardinality(C29_FilesWritten) = exp.ExportedCount) <=> ~C29_Collision
    /\ (Finished /\ C29_NoFailure) =>
         LET rs == Returned(listCalls)
             Path(r) == GenerateFilePath(exp.BaseDir, r.namespace, r.resource, C7_Name(r))
             Same(a, b) == /\ a.namespace = b.namespace /\ a.resource = b.resource
                           /\ C7_Name(a) = C7_Name(b)
         IN  /\ exp.ExportedCount = Len(rs)
             /\ \A i, j \in DOMAIN rs : Same(rs[i], rs[j]) <=> Path(rs[i]) = Path(rs[j])
             /\ \A i \in DOMAIN rs :
                  (\A j \in DOMAIN rs : Same(rs[i], rs[j]) => j <= i) =>
                    /\ Path(rs[i]) \in DOMAIN fs.files
                    /\ fs.files[Path(rs[i])] = Marshal(CleanManifest(rs[i].item))

\* A finished run with all resource types: the pod of the core group and the
\* pod of the custom group, same namespace and name, both counted, one file,
\* which holds the custom one.
C29_Witness ==
  /\ Finished /\ ~flags.exportDryRun /\ flags.exportAllRes /\ C29_NoFailure
  /\ exp.ExportedCount = 2
  /\ Cardinality(DOMAIN fs.files) = 1
  /\ Len(listCalls) = 2
  /\ listCalls[1].call.group # listCalls[2].call.group
  /\ \A p \in DOMAIN fs.files : fs.files[p].yaml["apiVersion"].s = s_example_com_v1

----------------------------------------------------------------------------
(* Claims on the interactive run over several contexts *)

\* The place in the context loop at which line i of stdout was printed.
C30_Segment(i) ==
  Cardinality({h \in PrintedWith(stdout, "=== Processing context: %s ===") : h <= i})

\* The successful exports of the k-th context.
C30_ExportsOf(k) == {i \in PrintedWith(stdout, "Exported: ") : C30_Segment(i) = k}

C30_PathOf(arg) ==
  C7_FileAt(interFlags.interactiveOutputDir \o <<SLASH>> \o arg \o s_dot_yaml)

\* C30: in a finished interactive run that writes, with the output flag set,
\* every context's Exporter has the flag's directory as base directory,
\* counts its own successful exports and prints them in its summary; every
\* exported namespace/type/name has its file under that directory whatever
\* the context; and when no export failed, the file of a triple holds the
\* cleaned object of the last context that exported the triple.
C30_ContextsShareFiles ==
  (Finished /\ ~interFlags.interactiveDryRun /\ interFlags.interactiveOutputDir # <<>>) =>
    /\ Len(reports) = Len(selectedContexts)
    /\ \A k \in DOMAIN reports :
         /\ reports[k].context = selectedContexts[k]
         /\ reports[k].printed
         /\ reports[k].summary.dir = interFlags.interactiveOutputDir
         /\ reports[k].summary.count = Cardinality(C30_ExportsOf(k))
         /\ \E i \in DOMAIN stdout : C30_Segment(i) = k /\ stdout[i] = reports[k].summary
    /\ \A i \in PrintedWith(stdout, "Exported: ") : C30_PathOf(stdout[i].arg) \in DOMAIN fs.files
    /\ \A p \in DOMAIN fs.files :
         SubSeq(p, 1, Len(interFlags.interactiveOutputDir) + 1)
           = interFlags.interactiveOutputDir \o <<SLASH>>
    /\ PrintedWith(stderr, "Warning: failed to export %s/%s: %v") = {} =>
         \A i \in PrintedWith(stdout, "Exported: ") :
           (\A j \in PrintedWith(stdout, "Exported: ") :
              stdout[j].arg = stdout[i].arg => j <= i) =>
             LET doc == fs.files[C30_PathOf(stdout[i].arg)].yaml
             IN  /\ doc["spec"] = StringValue(selectedContexts[C30_Segment(i)])
                 /\ "status" \notin DOMAIN doc
                 /\ stdout[i].arg = doc["metadata"].m["namespace"].s \o <<SLASH>>
                                      \o doc["kind"].s \o <<SLASH>> \o doc["metadata"].m["name"].s

\* Both contexts exported the pod default/a: each counted one, one file is
\* there, and it holds the object of the second context.
C30_Witness ==
  /\ Finished /\ ~interFlags.interactiveDryRun /\ interFlags.interactiveOutputDir = s_out
  /\ selectedContexts = <<s_dev, s_prod>>
  /\ Len(reports) = 2
  /\ reports[1].summary.count = 1 /\ reports[2].summary.count = 1
  /\ Cardinality(DOMAIN fs.files) = 1
  /\ \A p \in DOMAIN fs.files : fs.files[p].yaml["spec"] = StringValue(s_prod)

====
